---------------------------- MODULE Spec2Model ----------------------------
(***************************************************************************)
(* A model of the jmon-format conversion pipeline: jmonTone (normalize,    *)
(* convertNotes, validate, _parseTimeString, getTempoAtTime) and the       *)
(* JmonToMidi / JmonToAbc / JmonToSuperCollider converters.                *)
(*                                                                         *)
(* JavaScript values are modelled as follows.                              *)
(*   - a number is a pair <<n, d>>: the rational n/d when d > 0, and       *)
(*     <<1,0>> = Infinity, <<-1,0>> = -Infinity, <<0,0>> = NaN.  Arithmetic*)
(*     is exact (binary rounding is not modelled).                         *)
(*   - a string that the code parses is a sequence of one-character        *)
(*     strings; a string the code only copies or compares is a TLA+ string.*)
(*   - a dynamically typed value is a record [t, n, s]: t its typeof,      *)
(*     n its number (when t = "number"), s its characters (t = "string").  *)
(***************************************************************************)
EXTENDS Integers, Sequences, FiniteSets, TLC

VARIABLES
    pc,          \* position of the call being modelled
    timeString,  \* _parseTimeString: argument (a dynamically typed value)
    bpm,         \* _parseTimeString: argument (a number)
    seconds,     \* _parseTimeString: returned value (a number)
    tempoMap,    \* getTempoAtTime: argument (sequence of [time, bpm])
    time,        \* getTempoAtTime: argument (a number of seconds)
    defaultBpm,  \* getTempoAtTime: argument (a number)
    effectiveTempo, \* getTempoAtTime: returned value
    composition, \* validate / normalize / convertTo...: the argument
    validation,  \* validate: returned {success, errors, warnings}
    rawInput,    \* normalize: the argument (any recognized shape)
    normalized,  \* normalize(input)
    normalizedTwice, \* normalize(normalize(input))
    converter,   \* which converter is called: "midi", "abc" or "sc"
    normalizedComposition,  \* convertToMidi: its local of that name
    stages,      \* the encoder steps that have run, in order
    midi,        \* convertToMidi: the Midi object being built
    midiFile,    \* createMidiFromTracks: the returned bytes
    run,         \* 1: the call on the input, 2: the call on normalize(input)
    firstRun,    \* how run 1 ended: [outcome, stages, midi]
    abc,         \* convertToAbc: the lines of its string abc so far
    sc,          \* convertToSuperCollider: the sections of its string sc
    argument,    \* a helper function called on its own: its argument
    returned,    \* a helper function called on its own: its returned value
    locals       \* a helper function called on its own: its local variables

timeVars == <<timeString, bpm, seconds>>
tempoVars == <<tempoMap, time, defaultBpm, effectiveTempo>>
validateVars == <<composition, validation>>
normalizeVars == <<rawInput, normalized, normalizedTwice>>

convertVars == <<converter, normalizedComposition, stages, midi, midiFile,
                 run, firstRun>>

outputVars == <<abc, sc>>

callVars == <<argument, returned, locals>>

vars == <<pc, timeVars, tempoVars, validateVars, normalizeVars, convertVars,
          outputVars, callVars>>

---------------------------------------------------------------------------
(* Bounds of the model. *)

\* longest free-form time string that is enumerated character by character
MaxStrLen == 2

---------------------------------------------------------------------------
(* JavaScript numbers. *)

Abs(x) == IF x < 0 THEN -x ELSE x

Sign(x) == IF x < 0 THEN -1 ELSE IF x > 0 THEN 1 ELSE 0

RECURSIVE GCD(_, _)
GCD(a, b) == IF b = 0 THEN a ELSE GCD(b, a % b)

\* canonical form of n/d
Norm(n, d) ==
    IF d = 0 THEN <<Sign(n), 0>>
    ELSE LET g == GCD(Abs(n), Abs(d))
             s == IF d < 0 THEN -1 ELSE 1
         IN  <<(s * n) \div g, (s * d) \div g>>

Num(i) == <<i, 1>>
NaN == <<0, 0>>
Infinity == <<1, 0>>

IsNaN(a) == a = NaN
IsFinite(a) == a[2] # 0

RMul(a, b) == Norm(a[1] * b[1], a[2] * b[2])
RInv(a) == IF a[2] = 0 THEN (IF a[1] = 0 THEN NaN ELSE Num(0))
           ELSE IF a[1] < 0 THEN Norm(-a[2], -a[1]) ELSE Norm(a[2], a[1])
RDiv(a, b) == IF IsNaN(a) \/ IsNaN(b) THEN NaN ELSE RMul(a, RInv(b))
RAdd(a, b) == Norm(a[1] * b[2] + b[1] * a[2], a[2] * b[2])
RNeg(a) == <<-a[1], a[2]>>
RSub(a, b) == RAdd(a, RNeg(b))

\* a < b, a <= b (false when either is NaN, as in JavaScript)
RLt(a, b) ==
    /\ ~IsNaN(a) /\ ~IsNaN(b)
    /\ IF a[2] = 0 /\ b[2] = 0 THEN a[1] < b[1]
       ELSE IF a[2] = 0 THEN a[1] < 0
       ELSE IF b[2] = 0 THEN b[1] > 0
       ELSE a[1] * b[2] < b[1] * a[2]
RLe(a, b) == ~IsNaN(a) /\ ~IsNaN(b) /\ (a = b \/ RLt(a, b))

\* x is falsy as a number: 0 or NaN
NumFalsy(a) == a[1] = 0

\* floor of a finite number, as an integer
Floor(a) == a[1] \div a[2]

\* Math.round of a finite number, as an integer: floor(x + 1/2)
Round(a) == Floor(RAdd(a, <<1, 2>>))

---------------------------------------------------------------------------
(* Dynamically typed values. *)

JNum(r) == [t |-> "number", n |-> r, s |-> <<>>, a |-> <<>>]
JStr(cs) == [t |-> "string", n |-> Num(0), s |-> cs, a |-> <<>>]
JArr(xs) == [t |-> "array", n |-> Num(0), s |-> <<>>, a |-> xs]
JUndefined == [t |-> "undefined", n |-> Num(0), s |-> <<>>, a |-> <<>>]
JObject == [t |-> "object", n |-> Num(0), s |-> <<>>, a |-> <<>>]
JTrue == [t |-> "boolean", n |-> Num(1), s |-> <<>>, a |-> <<>>]
JFalse == [t |-> "boolean", n |-> Num(0), s |-> <<>>, a |-> <<>>]

\* !!v
Truthy(v) ==
    CASE v.t = "undefined" -> FALSE
      [] v.t = "number" -> ~NumFalsy(v.n)
      [] v.t = "string" -> v.s # <<>>
      [] v.t = "boolean" -> ~NumFalsy(v.n)
      [] OTHER -> TRUE

IsArray(v) == v.t = "array"
IsDefined(v) == v.t # "undefined"

---------------------------------------------------------------------------
(* Strings as character sequences. *)

Digits == {"0", "1", "2", "3", "4", "5", "6", "7", "8", "9"}

DigitVal(c) ==
    CASE c = "0" -> 0 [] c = "1" -> 1 [] c = "2" -> 2 [] c = "3" -> 3
      [] c = "4" -> 4 [] c = "5" -> 5 [] c = "6" -> 6 [] c = "7" -> 7
      [] c = "8" -> 8 [] c = "9" -> 9

RECURSIVE Pow10(_)
Pow10(k) == IF k = 0 THEN 1 ELSE 10 * Pow10(k - 1)

\* the value of a run of decimal digits
RECURSIVE DecVal(_)
DecVal(cs) ==
    IF cs = <<>> THEN 0
    ELSE 10 * DecVal(SubSeq(cs, 1, Len(cs) - 1)) + DigitVal(cs[Len(cs)])

\* length of the longest run of digits of cs that starts at index i
RECURSIVE DigitRun(_, _)
DigitRun(cs, i) ==
    IF i <= Len(cs) /\ cs[i] \in Digits THEN 1 + DigitRun(cs, i + 1) ELSE 0

Includes(cs, c) == \E i \in 1..Len(cs) : cs[i] = c

\* String.prototype.split on a one-character separator
RECURSIVE Split(_, _)
Split(cs, c) ==
    IF ~Includes(cs, c) THEN <<cs>>
    ELSE LET i == CHOOSE k \in 1..Len(cs) :
                      cs[k] = c /\ \A j \in 1..(k - 1) : cs[j] # c
         IN  <<SubSeq(cs, 1, i - 1)>> \o Split(SubSeq(cs, i + 1, Len(cs)), c)

\* parseFloat: the longest prefix [+-]? digits* (. digits*)? that holds a digit
ParseFloat(cs) ==
    LET sgn == IF cs # <<>> /\ cs[1] = "-" THEN -1 ELSE 1
        Value(ni, nf, ip, fp) ==
            IF ni + nf = 0 THEN NaN
            ELSE Norm(sgn * (ip * Pow10(nf) + fp), Pow10(nf))
        WithFraction(i0, ni, nf) ==
            Value(ni, nf, DecVal(SubSeq(cs, i0, i0 + ni - 1)),
                  DecVal(SubSeq(cs, i0 + ni + 1, i0 + ni + nf)))
        WithInteger(i0, ni) ==
            LET dot == i0 + ni <= Len(cs) /\ cs[i0 + ni] = "."
            IN  WithFraction(i0, ni,
                             IF dot THEN DigitRun(cs, i0 + ni + 1) ELSE 0)
        From(i0) == WithInteger(i0, DigitRun(cs, i0))
    IN  From(IF cs # <<>> /\ cs[1] \in {"-", "+"} THEN 2 ELSE 1)

\* parseInt on a value that holds only digits
ParseInt(cs) == Num(DecVal(cs))

---------------------------------------------------------------------------
(* jmonTone._parseTimeString *)

NoteTypes == {"n", "m", "h", "q", "w", "t", "s"}

\* timeString.match(/^\d+[nmhqwst]$/)
MatchesNoteValue(cs) ==
    /\ Len(cs) >= 2
    /\ cs[Len(cs)] \in NoteTypes
    /\ \A i \in 1..(Len(cs) - 1) : cs[i] \in Digits

\* parts[i] || 0 for the array of parseFloat results
PartOrZero(parts, i) ==
    IF i > Len(parts) THEN Num(0)
    ELSE LET OrZero(v) == IF NumFalsy(v) THEN Num(0) ELSE v
         IN  OrZero(ParseFloat(parts[i]))

TicksPerBeat == 480

\* NoteValueSeconds with the half-note case ignoring its count
NoteValueSecondsFixedHalf(cs, b) ==
    LET noteType == cs[Len(cs)]
        Seconds(noteValue, beatLength) ==
            CASE noteType = "n" -> RMul(beatLength, RDiv(Num(4), noteValue))
            [] noteType = "m" -> RMul(RMul(beatLength, Num(4)), noteValue)
            [] noteType = "h" -> RMul(beatLength, Num(2))
            [] noteType = "q" -> RMul(beatLength, noteValue)
            [] noteType = "w" -> RMul(RMul(beatLength, Num(4)), noteValue)
            [] noteType = "t" ->
                   RMul(RMul(beatLength, RDiv(Num(4), noteValue)), <<2, 3>>)
            [] noteType = "s" -> RMul(RMul(beatLength, <<1, 4>>), noteValue)
    IN  Seconds(ParseInt(SubSeq(cs, 1, Len(cs) - 1)), RDiv(Num(60), b))

NoteValueSeconds(cs, b) ==
    LET noteType == cs[Len(cs)]
        Seconds(noteValue, beatLength) ==
            CASE noteType = "n" -> RMul(beatLength, RDiv(Num(4), noteValue))
            [] noteType = "m" -> RMul(RMul(beatLength, Num(4)), noteValue)
            [] noteType = "h" -> RMul(RMul(beatLength, Num(2)), noteValue)
            [] noteType = "q" -> RMul(beatLength, noteValue)
            [] noteType = "w" -> RMul(RMul(beatLength, Num(4)), noteValue)
            [] noteType = "t" ->
                   RMul(RMul(beatLength, RDiv(Num(4), noteValue)), <<2, 3>>)
            [] noteType = "s" -> RMul(RMul(beatLength, <<1, 4>>), noteValue)
    IN  Seconds(ParseInt(SubSeq(cs, 1, Len(cs) - 1)), RDiv(Num(60), b))

BarsBeatsTicksSeconds(cs, b) ==
    LET Seconds(bars, beats, ticks, beatLength) ==
            LET barLength  == RMul(beatLength, Num(4))
                tickLength == RDiv(beatLength, Num(TicksPerBeat))
            IN  RAdd(RAdd(RMul(bars, barLength), RMul(beats, beatLength)),
                     RMul(ticks, tickLength))
        OfParts(parts) ==
            Seconds(PartOrZero(parts, 1), PartOrZero(parts, 2),
                    PartOrZero(parts, 3), RDiv(Num(60), b))
    IN  OfParts(Split(cs, ":"))

ParseTimeString(ts, b) ==
    IF ts.t = "number" THEN ts.n
    ELSE IF ts.t # "string" THEN Num(0)
    ELSE IF MatchesNoteValue(ts.s) THEN NoteValueSeconds(ts.s, b)
    ELSE IF Includes(ts.s, ":") THEN BarsBeatsTicksSeconds(ts.s, b)
    ELSE LET OrZero(parsed) == IF ~IsNaN(parsed) THEN parsed ELSE Num(0)
         IN  OrZero(ParseFloat(ts.s))

---------------------------------------------------------------------------
(* jmonTone.getTempoAtTime *)

DefaultTimeBpm == 120

\* the loop over the tempo map from entry i on; eff is effectiveTempo
RECURSIVE TempoScan(_, _, _, _)
TempoScan(tm, i, eff, t) ==
    IF i > Len(tm) THEN eff
    ELSE LET changeTime ==
                 IF tm[i].time.t = "string"
                 THEN ParseTimeString(tm[i].time, Num(DefaultTimeBpm))
                 ELSE tm[i].time.n
         IN  IF RLe(changeTime, t)
             THEN TempoScan(tm, i + 1, tm[i].bpm, t)
             ELSE eff

GetTempoAtTime(tm, t, d) ==
    IF Len(tm) = 0 THEN d ELSE TempoScan(tm, 1, d, t)

---------------------------------------------------------------------------
(* The composition model.  One record type serves the canonical composition *)
(* and the other input shapes normalize recognizes; a field an object does  *)
(* not have is undefined (JUndefined, or "" for a field the code only tests *)
(* for truth and copies).                                                   *)

FORMAT_IDENTIFIER == "jmonTone"
VERSION == "1.0"

\* a note-like object with none of the fields the code reads
EmptyNote ==
    [time |-> JUndefined, note |-> JUndefined, duration |-> JUndefined,
     velocity |-> JUndefined, channel |-> JUndefined,
     modulations |-> JUndefined, microtuning |-> JUndefined,
     pitch |-> JUndefined, frequency |-> JUndefined, start |-> JUndefined,
     length |-> JUndefined, volume |-> JUndefined]

\* a modulation object
Modulation(type, value, t, controller) ==
    [type |-> type, value |-> value, time |-> t, controller |-> controller]

\* a sequence-like object with none of the fields the code reads
EmptySequence ==
    [label |-> "", name |-> "", synthRef |-> "", synth |-> "",
     notes |-> JUndefined, midiChannel |-> JUndefined,
     isArray |-> FALSE, items |-> <<>>]

NoMetadata == [present |-> FALSE, name |-> "", author |-> "",
               description |-> ""]

\* an input object with none of the fields the code reads
EmptyObject ==
    [isArray |-> FALSE, items |-> <<>>,
     format |-> "", version |-> "", bpm |-> JUndefined, tempo |-> JUndefined,
     title |-> "", name |-> "", author |-> "", composer |-> "",
     key |-> <<>>, keySignature |-> <<>>, timeSignature |-> "",
     metadata |-> NoMetadata,
     audioGraph |-> JUndefined, connections |-> JUndefined,
     sequences |-> JUndefined, parts |-> JUndefined, tracks |-> JUndefined,
     notes |-> JUndefined, melody |-> JUndefined, tempoMap |-> JUndefined]

AudioGraphNode(id, type, options) ==
    [id |-> id, type |-> type, options |-> options]

Connection(ends) == [isArray |-> TRUE, ends |-> ends]

RECURSIVE Flatten(_)
Flatten(xss) ==
    IF xss = <<>> THEN <<>> ELSE Head(xss) \o Flatten(Tail(xss))

\* one message when the condition holds
Report(cond, msg) == IF cond THEN <<msg>> ELSE <<>>

\* ToNumber of the values a comparison meets here
NumOf(v) == IF v.t = "number" THEN v.n ELSE NaN

---------------------------------------------------------------------------
(* jmonTone.validate *)

validNodeTypes ==
    {"Synth", "PolySynth", "MonoSynth", "AMSynth", "FMSynth", "DuoSynth",
     "PluckSynth", "NoiseSynth", "Sampler", "Filter", "AutoFilter", "Reverb",
     "FeedbackDelay", "PingPongDelay", "Delay", "Chorus", "Phaser", "Tremolo",
     "Vibrato", "AutoWah", "Distortion", "Chebyshev", "BitCrusher",
     "Compressor", "Limiter", "Gate", "FrequencyShifter", "PitchShift",
     "JCReverb", "Freeverb", "StereoWidener", "MidSideCompressor",
     "Destination"}

ModulationTypes == {"cc", "pitchBend", "aftertouch"}

\* /^[A-G](#|b)?m?$/.test(keySignature)
KeySignatureWellFormed(cs) ==
    /\ Len(cs) >= 1
    /\ cs[1] \in {"A", "B", "C", "D", "E", "F", "G"}
    /\ LET rest == Tail(cs)
           r2   == IF rest # <<>> /\ rest[1] \in {"#", "b"}
                   THEN Tail(rest) ELSE rest
       IN  r2 = <<>> \/ r2 = <<"m">>

OutOfRange(v, lo, hi) == RLt(NumOf(v), Num(lo)) \/ RLt(Num(hi), NumOf(v))

RootErrors(c) ==
    (IF c.format = "" THEN <<"format">>
     ELSE Report(c.format # FORMAT_IDENTIFIER, "invalid format"))
    \o Report(c.version = "", "version")
    \o Report(~Truthy(c.bpm), "bpm")

RootWarnings(c) ==
    Report(Truthy(c.bpm)
           /\ (c.bpm.t # "number" \/ OutOfRange(c.bpm, 20, 400)), "bpm range")

NodeErrors(node) ==
    Report(node.id = "", "node id")
    \o Report(node.type = "", "node type")
    \o Report(~node.options, "node options")

NodeWarnings(node) == Report(node.type \notin validNodeTypes, "node type")

AudioGraphErrors(c) ==
    IF IsArray(c.audioGraph)
    THEN Flatten([i \in 1..Len(c.audioGraph.a) |->
                      NodeErrors(c.audioGraph.a[i])])
    ELSE <<>>

AudioGraphWarnings(c) ==
    IF IsArray(c.audioGraph)
    THEN Flatten([i \in 1..Len(c.audioGraph.a) |->
                      NodeWarnings(c.audioGraph.a[i])])
    ELSE <<>>

ConnectionErrors(c) ==
    IF IsArray(c.connections)
    THEN Flatten([i \in 1..Len(c.connections.a) |->
             LET connection == c.connections.a[i]
             IN  Report(~connection.isArray \/ Len(connection.ends) # 2,
                        "connection")])
    ELSE <<>>

NodeIds(c) == {c.audioGraph.a[i].id : i \in 1..Len(c.audioGraph.a)}

ConnectionWarnings(c) ==
    IF IsArray(c.connections)
    THEN Flatten([i \in 1..Len(c.connections.a) |->
             LET connection == c.connections.a[i]
             IN  IF connection.isArray /\ Len(connection.ends) = 2
                    /\ Truthy(c.audioGraph)
                 THEN Report(connection.ends[1] \notin NodeIds(c), "source")
                      \o Report(connection.ends[2] \notin NodeIds(c)
                                /\ connection.ends[2] # "master", "target")
                 ELSE <<>>])
    ELSE <<>>

ModulationErrors(mod) ==
    Report(mod.type \notin ModulationTypes, "modulation type")
    \o Report(~IsDefined(mod.value), "modulation value")
    \o Report(~IsDefined(mod.time), "modulation time")

NoteErrors(note) ==
    Report(~IsDefined(note.time), "time")
    \o Report(~Truthy(note.note), "note")
    \o Report(~Truthy(note.duration), "duration")
    \o Report(IsDefined(note.channel) /\ OutOfRange(note.channel, 0, 15),
              "note channel")
    \o (IF IsArray(note.modulations)
        THEN Flatten([k \in 1..Len(note.modulations.a) |->
                          ModulationErrors(note.modulations.a[k])])
        ELSE <<>>)

NoteWarnings(note) ==
    Report(IsDefined(note.velocity) /\ OutOfRange(note.velocity, 0, 1),
           "velocity")

SequenceErrors(seq) ==
    Report(seq.label = "", "label")
    \o (IF ~IsArray(seq.notes) THEN <<"notes">>
        ELSE Flatten([j \in 1..Len(seq.notes.a) |->
                          NoteErrors(seq.notes.a[j])]))
    \o Report(IsDefined(seq.midiChannel)
              /\ OutOfRange(seq.midiChannel, 0, 15), "sequence channel")

SequenceWarnings(seq) ==
    Report(seq.synth = "" /\ seq.synthRef = "", "synth")
    \o (IF ~IsArray(seq.notes) THEN <<>>
        ELSE Flatten([j \in 1..Len(seq.notes.a) |->
                          NoteWarnings(seq.notes.a[j])]))

SequencesErrors(c) ==
    IF ~IsArray(c.sequences) THEN <<"sequences">>
    ELSE Flatten([i \in 1..Len(c.sequences.a) |->
                      SequenceErrors(c.sequences.a[i])])

SequencesWarnings(c) ==
    IF ~IsArray(c.sequences) THEN <<>>
    ELSE Flatten([i \in 1..Len(c.sequences.a) |->
                      SequenceWarnings(c.sequences.a[i])])

KeySignatureErrors(c) ==
    Report(c.keySignature # <<>> /\ ~KeySignatureWellFormed(c.keySignature),
           "keySignature")

TempoMapErrors(c) ==
    IF IsArray(c.tempoMap)
    THEN Flatten([i \in 1..Len(c.tempoMap.a) |->
             LET tempoChange == c.tempoMap.a[i]
             IN  Report(~Truthy(tempoChange.time), "tempoMap time")
                 \o Report(~Truthy(tempoChange.bpm)
                           \/ OutOfRange(tempoChange.bpm, 20, 400),
                           "tempoMap bpm")])
    ELSE <<>>

Validate(c) ==
    LET errors == RootErrors(c) \o AudioGraphErrors(c) \o ConnectionErrors(c)
                  \o SequencesErrors(c) \o KeySignatureErrors(c)
                  \o TempoMapErrors(c)
        warnings == RootWarnings(c) \o AudioGraphWarnings(c)
                    \o ConnectionWarnings(c) \o SequencesWarnings(c)
    IN  [success |-> errors = <<>>, errors |-> errors, warnings |-> warnings]

---------------------------------------------------------------------------
(* Number to string conversion (template literals). *)

DigitChar(d) ==
    CASE d = 0 -> "0" [] d = 1 -> "1" [] d = 2 -> "2" [] d = 3 -> "3"
      [] d = 4 -> "4" [] d = 5 -> "5" [] d = 6 -> "6" [] d = 7 -> "7"
      [] d = 8 -> "8" [] d = 9 -> "9"

\* decimal digits of a natural number
RECURSIVE NatChars(_)
NatChars(k) ==
    IF k < 10 THEN <<DigitChar(k)>>
    ELSE NatChars(k \div 10) \o <<DigitChar(k % 10)>>

\* longest fraction that is written out
MaxFractionDigits == 6

\* digits of the fraction r/d (0 <= r < d), at most k of them
RECURSIVE FractionChars(_, _, _)
FractionChars(r, d, k) ==
    IF r = 0 \/ k = 0 THEN <<>>
    ELSE <<DigitChar((10 * r) \div d)>>
         \o FractionChars((10 * r) % d, d, k - 1)

\* String(x) for a number x
NumberToChars(x) ==
    IF IsNaN(x) THEN <<"N", "a", "N">>
    ELSE IF ~IsFinite(x)
         THEN (IF x[1] < 0 THEN <<"-">> ELSE <<>>)
              \o <<"I", "n", "f", "i", "n", "i", "t", "y">>
    ELSE LET m  == Abs(x[1])
             ip == m \div x[2]
             fr == m % x[2]
         IN  (IF x[1] < 0 THEN <<"-">> ELSE <<>>)
             \o NatChars(ip)
             \o (IF fr = 0 THEN <<>>
                 ELSE <<".">> \o FractionChars(fr, x[2], MaxFractionDigits))

\* the integer part of a finite number, rounded toward zero
Trunc(x) == Sign(x[1]) * (Abs(x[1]) \div x[2])

\* x % m for finite x and a positive integer m (sign of the dividend)
Remainder(x, m) == RSub(x, Num(m * Trunc(RDiv(x, Num(m)))))

---------------------------------------------------------------------------
(* jmonTone.midiNoteToNoteName, jmonTone.noteNameToMidiNote *)

noteNames ==
    << <<"C">>, <<"C", "#">>, <<"D">>, <<"D", "#">>, <<"E">>, <<"F">>,
       <<"F", "#">>, <<"G">>, <<"G", "#">>, <<"A">>, <<"A", "#">>, <<"B">> >>

DefaultNoteName == <<"C", "4">>

\* midiNote is a dynamically typed value; integers are the numbers modelled
MidiNoteToNoteName(midiNote) ==
    IF midiNote.t # "number" \/ ~IsFinite(midiNote.n)
       \/ RLt(midiNote.n, Num(0)) \/ RLt(Num(127), midiNote.n)
    THEN DefaultNoteName
    ELSE LET k      == Floor(midiNote.n)
             octave == (k \div 12) - 1
         IN  noteNames[(k % 12) + 1] \o NumberToChars(Num(octave))

noteValues(letter) ==
    CASE letter = "C" -> 0 [] letter = "D" -> 2 [] letter = "E" -> 4
      [] letter = "F" -> 5 [] letter = "G" -> 7 [] letter = "A" -> 9
      [] letter = "B" -> 11

DefaultMidiNote == 60

\* noteName.match(/^([A-G])(#|b)?(-?\d+)$/): the index where the octave starts,
\* or 0 when there is no match
NoteNameOctaveStart(cs) ==
    IF Len(cs) < 2 \/ cs[1] \notin {"A", "B", "C", "D", "E", "F", "G"} THEN 0
    ELSE LET i == IF cs[2] \in {"#", "b"} THEN 3 ELSE 2
             j == IF i <= Len(cs) /\ cs[i] = "-" THEN i + 1 ELSE i
         IN  IF j <= Len(cs) /\ DigitRun(cs, j) = Len(cs) - j + 1
             THEN i ELSE 0

Clamp(lo, hi, x) == IF x < lo THEN lo ELSE IF x > hi THEN hi ELSE x

\* noteName is a character sequence
NoteNameToMidiNote(cs) ==
    LET i == NoteNameOctaveStart(cs)
    IN  IF i = 0 THEN DefaultMidiNote
        ELSE LET neg    == cs[i] = "-"
                 digits == SubSeq(cs, IF neg THEN i + 1 ELSE i, Len(cs))
                 octave == IF neg THEN -DecVal(digits) ELSE DecVal(digits)
                 acc    == IF i = 3 THEN (IF cs[2] = "#" THEN 1 ELSE -1)
                           ELSE 0
             IN  Clamp(0, 127, noteValues(cs[1]) + (octave + 1) * 12 + acc)

---------------------------------------------------------------------------
(* jmonTone.convertNotes *)

\* Math.round(12 * Math.log2(frequency / 440) + 69) for the frequencies that
\* are enumerated: the octaves of A4 and the two examples 493.88 and 523.25
RECURSIVE Log2OfPowerOfTwo(_)
Log2OfPowerOfTwo(x) ==
    IF x = Num(1) THEN 0
    ELSE IF RLt(Num(1), x) THEN 1 + Log2OfPowerOfTwo(RDiv(x, Num(2)))
    ELSE Log2OfPowerOfTwo(RMul(x, Num(2))) - 1

FrequencyToMidiNote(f) ==
    CASE f = <<12347, 25>> -> 71
      [] f = <<2093, 4>> -> 72
      [] OTHER -> 12 * Log2OfPowerOfTwo(RDiv(f, Num(440))) + 69

DurationToken(d) ==
    IF d = <<1, 4>> THEN <<"1", "6", "n">>
    ELSE IF d = <<1, 2>> THEN <<"8", "n">>
    ELSE IF d = Num(1) THEN <<"4", "n">>
    ELSE IF d = Num(2) THEN <<"2", "n">>
    ELSE IF d = Num(4) THEN <<"1", "n">>
    ELSE NumberToChars(d) \o <<"n">>

DefaultVelocity == <<4, 5>>

ConvertNote(note) ==
    [EmptyNote EXCEPT
        !.note =
            IF IsDefined(note.pitch)
            THEN (IF note.pitch.t = "number"
                  THEN JStr(MidiNoteToNoteName(note.pitch))
                  ELSE note.pitch)
            ELSE IF IsDefined(note.note) THEN note.note
            ELSE IF IsDefined(note.frequency)
                 THEN JStr(MidiNoteToNoteName(
                          JNum(Num(FrequencyToMidiNote(note.frequency.n)))))
            ELSE JUndefined,
        !.time =
            IF IsDefined(note.time)
            THEN (IF note.time.t = "number"
                  THEN LET bars  == Floor(RDiv(note.time.n, Num(4)))
                           beats == Remainder(note.time.n, 4)
                       IN  JStr(NumberToChars(Num(bars)) \o <<":">>
                                \o NumberToChars(beats) \o <<":", "0">>)
                  ELSE note.time)
            ELSE IF IsDefined(note.start) THEN note.start
            ELSE JNum(Num(0)),
        !.duration =
            IF IsDefined(note.duration)
            THEN (IF note.duration.t = "number"
                  THEN JStr(DurationToken(note.duration.n))
                  ELSE note.duration)
            ELSE IF IsDefined(note.length) THEN note.length
            ELSE JStr(<<"4", "n">>),
        !.velocity =
            IF IsDefined(note.velocity)
            THEN (IF note.velocity.t = "number"
                  THEN (IF RLt(Num(1), note.velocity.n)
                        THEN JNum(RDiv(note.velocity.n, Num(127)))
                        ELSE note.velocity)
                  ELSE JNum(DefaultVelocity))
            ELSE IF IsDefined(note.volume) THEN note.volume
            ELSE JNum(DefaultVelocity),
        !.channel = note.channel,
        !.modulations =
            IF Truthy(note.modulations) THEN note.modulations ELSE JUndefined]

\* notes is a dynamically typed value; the result is a sequence of notes
ConvertNotes(notes) ==
    IF ~IsArray(notes) THEN <<>>
    ELSE [i \in 1..Len(notes.a) |-> ConvertNote(notes.a[i])]

---------------------------------------------------------------------------
(* jmonTone.normalize *)

\* a || b for strings and for dynamically typed values
StrOr(a, b) == IF a # "" THEN a ELSE b
ValOr(a, b) == IF Truthy(a) THEN a ELSE b
CharsOr(a, b) == IF a # <<>> THEN a ELSE b

DefaultBpm == 120

NormalizedSequence(label, synthRef, notes) ==
    [EmptySequence EXCEPT !.label = label, !.synthRef = synthRef,
                          !.notes = JArr(notes)]

\* sequences.map((seq, index) => ...): index counts from 0
NormalizeSequenceItem(sq, index) ==
    NormalizedSequence(
        StrOr(sq.label, StrOr(sq.name, "sequence" \o ToString(index))),
        StrOr(sq.synthRef, "synth"),
        ConvertNotes(IF Truthy(sq.notes) THEN sq.notes
                     ELSE IF sq.isArray THEN JArr(sq.items)
                     ELSE JObject))

NormalizedSequences(input) ==
    IF input.isArray
    THEN <<NormalizedSequence("sequence", "synth",
                              ConvertNotes(JArr(input.items)))>>
    ELSE IF Truthy(input.tracks)
    THEN [i \in 1..Len(input.tracks.a) |->
              NormalizedSequence(input.tracks.a[i].name, "synth",
                                 ConvertNotes(input.tracks.a[i].notes))]
    ELSE IF Truthy(input.sequences) \/ Truthy(input.parts)
    THEN LET sequences == ValOr(input.sequences, input.parts)
         IN  IF IsArray(sequences)
             THEN [i \in 1..Len(sequences.a) |->
                       NormalizeSequenceItem(sequences.a[i], i - 1)]
             ELSE <<>>
    ELSE LET notes == ValOr(input.notes, input.melody)
         IN  IF IsArray(notes)
             THEN <<NormalizedSequence(
                        StrOr(input.title, StrOr(input.name, "sequence")),
                        "synth", ConvertNotes(notes))>>
             ELSE <<>>

NormalizedMetadata(input) ==
    LET m0 == IF ~input.isArray /\ Truthy(input.tracks)
              THEN [NoMetadata EXCEPT !.present = TRUE,
                                      !.name = StrOr(input.title, "Untitled")]
              ELSE NoMetadata
        m1 == IF input.title # ""
              THEN [m0 EXCEPT !.present = TRUE, !.name = input.title] ELSE m0
        m2 == IF input.author # "" \/ input.composer # ""
              THEN [m1 EXCEPT !.present = TRUE,
                              !.author = StrOr(input.author, input.composer)]
              ELSE m1
    IN  m2

\* a test that takes no input for canonical
NeverCanonical(input) == FALSE

\* if (input.format === 'jmonTone') return input
AlreadyCanonical(input) == input.format = FORMAT_IDENTIFIER

Normalize(input) ==
    IF AlreadyCanonical(input) THEN input
    ELSE [EmptyObject EXCEPT
             !.format = FORMAT_IDENTIFIER,
             !.version = VERSION,
             !.bpm = IF Truthy(input.bpm) \/ Truthy(input.tempo)
                     THEN ValOr(input.bpm, input.tempo)
                     ELSE JNum(Num(DefaultBpm)),
             !.audioGraph =
                 JArr(<<AudioGraphNode("synth", "Synth", TRUE),
                        AudioGraphNode("master", "Destination", TRUE)>>),
             !.connections = JArr(<<Connection(<<"synth", "master">>)>>),
             !.sequences = JArr(NormalizedSequences(input)),
             !.metadata = NormalizedMetadata(input),
             !.keySignature =
                 IF input.key # <<>> \/ input.keySignature # <<>>
                 THEN CharsOr(input.key, input.keySignature) ELSE <<>>]

---------------------------------------------------------------------------
(* Integer operations of the byte encoders. *)

RECURSIVE Pow2(_)
Pow2(k) == IF k = 0 THEN 1 ELSE 2 * Pow2(k - 1)

\* ToUint8 of an integer
ToUint8(x) == x % 256

\* a & b and a | b for natural numbers
RECURSIVE BitAnd(_, _)
BitAnd(a, b) ==
    IF a = 0 \/ b = 0 THEN 0
    ELSE (a % 2) * (b % 2) + 2 * BitAnd(a \div 2, b \div 2)

RECURSIVE BitOr(_, _)
BitOr(a, b) ==
    IF a = 0 THEN b
    ELSE IF b = 0 THEN a
    ELSE (IF a % 2 = 1 \/ b % 2 = 1 THEN 1 ELSE 0)
         + 2 * BitOr(a \div 2, b \div 2)

---------------------------------------------------------------------------
(* JmonToMidi.convertToMidi: the Midi object built from a composition.     *)
(* Only what createMidiFromTracks reads is kept: header.tempos and, per    *)
(* track, name, channel and notes (controlChanges, pitchBends, aftertouch  *)
(* and textEvents are written by convertToMidi and read by no encoder).    *)

\* parseTime(timeStr, bpm)
ParseTime(timeStr, b) ==
    IF timeStr.t = "number" THEN timeStr.n
    ELSE IF timeStr.t # "string" THEN Num(0)
    ELSE ParseTimeString(timeStr, b)

\* normalizedComposition.bpm || 120
BpmOrDefault(c) == IF Truthy(c.bpm) THEN c.bpm.n ELSE Num(DefaultBpm)

DefaultMidiVelocity == 100

\* the entries pushed on track.notes for one note of a sequence
MidiNotesOfNote(note, b, defaultChannel) ==
    LET startTime == ParseTime(note.time, b)
        duration  == ParseTime(note.duration, b)
        velocity  == IF Truthy(note.velocity)
                     THEN Num(Round(RMul(NumOf(note.velocity), Num(127))))
                     ELSE Num(DefaultMidiVelocity)
        channel   == IF IsDefined(note.channel) THEN note.channel.n
                     ELSE defaultChannel
        notes     == IF IsArray(note.note) THEN note.note.a ELSE <<note.note>>
        usable    == SelectSeq(notes, LAMBDA n : n.t \in {"number", "string"})
    IN  [k \in 1..Len(usable) |->
            [midi |-> IF usable[k].t = "number" THEN usable[k].n
                      ELSE Num(NoteNameToMidiNote(usable[k].s)),
             time |-> startTime, duration |-> duration,
             velocity |-> velocity, channel |-> channel]]

\* sequence.midiChannel || 0
ChannelOrZero(sequence) ==
    IF Truthy(sequence.midiChannel) THEN sequence.midiChannel.n ELSE Num(0)

MidiTrack(sequence, index, b) ==
    [name |-> StrOr(sequence.label, "Track " \o ToString(index + 1)),
     channel |-> ChannelOrZero(sequence),
     notes |-> Flatten([j \in 1..Len(sequence.notes.a) |->
                   MidiNotesOfNote(sequence.notes.a[j], b,
                                   ChannelOrZero(sequence))])]

MidiTracks(c) ==
    [i \in 1..Len(c.sequences.a) |->
        MidiTrack(c.sequences.a[i], i - 1, BpmOrDefault(c))]

MidiTempos(c) ==
    <<[time |-> Num(0), bpm |-> BpmOrDefault(c)]>>
    \o (IF Truthy(c.tempoMap)
        THEN [i \in 1..Len(c.tempoMap.a) |->
                 [time |-> ParseTime(c.tempoMap.a[i].time, BpmOrDefault(c)),
                  bpm |-> c.tempoMap.a[i].bpm.n]]
        ELSE <<>>)

\* new Tone.Midi(): no tempos and no tracks yet
EmptyMidi == [tempos |-> <<>>, tracks |-> <<>>]

---------------------------------------------------------------------------
(* JmonToMidi.createMidiFromTracks *)

\* the bytes of num, least significant first
NumberToBytesLittleEndian(num, bytes) ==
    [k \in 1..bytes |-> (num \div Pow2(8 * (k - 1))) % 256]

\* numberToBytes(num, bytes): big-endian, (num >>> (i * 8)) & 0xFF for a
\* 32-bit num and i < 4 (the floor of the quotient, for a negative num too)
NumberToBytes(num, bytes) ==
    [k \in 1..bytes |-> (num \div Pow2(8 * (bytes - k))) % 256]

\* the bytes unshifted by the while loop of encodeVariableLength
RECURSIVE ContinuationBytes(_)
ContinuationBytes(value) ==
    IF value > 0
    THEN ContinuationBytes(value \div 128)
         \o <<BitOr(BitAnd(value, 127), 128)>>
    ELSE <<>>

\* an encoder that sets no continuation bit
EncodeVariableLengthWithoutContinuation(value) ==
    IF value < 128 THEN <<value>>
    ELSE [k \in 1..Len(ContinuationBytes(value \div 128)) |->
              BitAnd(ContinuationBytes(value \div 128)[k], 127)]
         \o <<BitAnd(value, 127)>>

\* encodeVariableLength(value) for a 32-bit integer value: past the early
\* return value is positive, and value >>> 7 is its quotient by 128
EncodeVariableLength(value) ==
    IF value < 128 THEN <<value>>
    ELSE ContinuationBytes(value \div 128) \o <<BitAnd(value, 127)>>

DefaultTicksPerQuarter == 480

MicrosecondsPerMinute == 60000000

\* x || d for numbers
NumOr(x, d) == IF NumFalsy(x) THEN d ELSE x

\* noteNameToMidiNumber('C4'), taken when note.midi is falsy: the tracks of
\* convertToMidi carry neither name nor note
FallbackMidiNumber == 60

\* the events of one track note, and lastTime after it: <<bytes, lastTime>>
NoteEvents(note, channel, lastTime) ==
    LET startTime == Round(RMul(note.time, Num(DefaultTicksPerQuarter)))
        duration  == Round(RMul(NumOr(note.duration, <<1, 2>>),
                                Num(DefaultTicksPerQuarter)))
        deltaTime == startTime - lastTime
        velocity  == Round(RMul(NumOr(note.velocity, <<4, 5>>), Num(127)))
        midiNote  == IF NumFalsy(note.midi) THEN FallbackMidiNumber
                     ELSE Floor(note.midi)
        ch        == Floor(channel)
    IN  << EncodeVariableLength(deltaTime)
             \o <<BitOr(144, ch), midiNote, velocity>>
             \o EncodeVariableLength(duration)
             \o <<BitOr(128, ch), midiNote, 0>>,
           startTime + duration >>

\* the loop over track.notes from note j on
RECURSIVE NotesEvents(_, _, _, _)
NotesEvents(notes, j, channel, lastTime) ==
    IF j > Len(notes) THEN <<>>
    ELSE LET ev == NoteEvents(notes[j], channel, lastTime)
         IN  ev[1] \o NotesEvents(notes, j + 1, channel, ev[2])

TempoEvent(b) ==
    <<0, 255, 81, 3>>
    \o NumberToBytes(Round(RDiv(Num(MicrosecondsPerMinute), b)), 3)

EndOfTrack == <<0, 255, 47, 0>>

\* trackEvents of track i (counted from 0)
TrackEvents(track, i, b) ==
    (IF i = 0 THEN TempoEvent(b) ELSE <<>>)
    \o NotesEvents(track.notes, 1, track.channel, 0)
    \o EndOfTrack

\* new Uint8Array(trackEvents)
Uint8Array(xs) == [k \in 1..Len(xs) |-> ToUint8(xs[k])]

MTrk == <<77, 84, 114, 107>>
MThd == <<77, 84, 104, 100>>

TrackChunk(track, i, b) ==
    LET trackData == Uint8Array(TrackEvents(track, i, b))
    IN  Uint8Array(MTrk \o NumberToBytes(Len(trackData), 4) \o trackData)

\* a header that counts one track more than there are
HeaderDataCountingTempoTrack(tracks) ==
    Uint8Array(MThd \o <<0, 0, 0, 6>> \o <<0, 1>>
               \o NumberToBytes(Len(tracks) + 1, 2)
               \o NumberToBytes(DefaultTicksPerQuarter, 2))

HeaderData(tracks) ==
    Uint8Array(MThd \o <<0, 0, 0, 6>> \o <<0, 1>>
               \o NumberToBytes(Len(tracks), 2)
               \o NumberToBytes(DefaultTicksPerQuarter, 2))

CreateMidiFromTracks(m) ==
    LET b == IF m.tempos # <<>> THEN m.tempos[1].bpm ELSE Num(DefaultBpm)
    IN  HeaderData(m.tracks)
        \o Flatten([i \in 1..Len(m.tracks) |->
                       TrackChunk(m.tracks[i], i - 1, b)])

---------------------------------------------------------------------------
(* JmonToAbc: the text of the notation encoder.  The string abc is kept as *)
(* its lines; a line is a record of its field letter ("" for a line of     *)
(* music) and its text, a sequence of characters and copied strings.       *)

AbcLine(field, text) == [field |-> field, text |-> text]

\* the keys of keyMap
AbcKeys ==
    {<<"C">>, <<"G">>, <<"D">>, <<"A">>, <<"E">>, <<"B">>, <<"F", "#">>,
     <<"C", "#">>, <<"F">>, <<"B", "b">>, <<"E", "b">>, <<"A", "b">>,
     <<"D", "b">>, <<"G", "b">>, <<"C", "b">>,
     <<"A", "m">>, <<"E", "m">>, <<"B", "m">>, <<"F", "#", "m">>,
     <<"C", "#", "m">>, <<"G", "#", "m">>, <<"D", "#", "m">>,
     <<"A", "#", "m">>, <<"D", "m">>, <<"G", "m">>, <<"C", "m">>,
     <<"F", "m">>, <<"B", "b", "m">>, <<"E", "b", "m">>, <<"A", "b", "m">>}

\* convertKeySignature: keyMap[keySignature] || 'C'
ConvertKeySignature(keySignature) ==
    IF keySignature \in AbcKeys THEN keySignature ELSE <<"C">>

\* generateAbcHeader(composition)
GenerateAbcHeader(c) ==
    <<AbcLine("X", <<"1">>),
      AbcLine("T", <<StrOr(c.metadata.name, "Untitled")>>)>>
    \o (IF c.metadata.author # ""
        THEN <<AbcLine("C", <<c.metadata.author>>)>> ELSE <<>>)
    \o (IF c.metadata.description # ""
        THEN <<AbcLine("N", <<c.metadata.description>>)>> ELSE <<>>)
    \o <<AbcLine("S", <<"Generated from jmon format">>),
         AbcLine("M", <<StrOr(c.timeSignature, "4/4")>>),
         AbcLine("L", <<"1", "/", "4">>),
         AbcLine("Q", <<"1", "/", "4", "=">>
                      \o NumberToChars(BpmOrDefault(c))),
         AbcLine("K", ConvertKeySignature(
                          IF c.keySignature # <<>> THEN c.keySignature
                          ELSE <<"C">>))>>

\* String.prototype.toLowerCase on a note letter
LowerCase(ch) ==
    CASE ch = "A" -> "a" [] ch = "B" -> "b" [] ch = "C" -> "c"
      [] ch = "D" -> "d" [] ch = "E" -> "e" [] ch = "F" -> "f"
      [] ch = "G" -> "g" [] OTHER -> ch

\* k copies of the character ch
Repeat(ch, k) == [i \in 1..k |-> ch]

\* the text matched against /^([A-G])(#|b)?(-?\d+)$/: a string as it is, a
\* MIDI number as noteNames[note % 12] + octave (no name for a number that
\* is negative or not whole: noteNames[...] is undefined there)
AbcNoteName(note) ==
    IF note.t = "string" THEN note.s
    ELSE IF note.t = "number" /\ IsFinite(note.n) /\ note.n[2] = 1
            /\ note.n[1] >= 0
    THEN LET octave == (note.n[1] \div 12) - 1
         IN  noteNames[(note.n[1] % 12) + 1]
             \o (IF octave < 0 THEN <<"-">> ELSE <<>>)
             \o NatChars(Abs(octave))
    ELSE <<"u", "n", "d", "e", "f", "i", "n", "e", "d">>

\* where the octave digits start when the name matches the pattern, else 0
AbcOctaveStart(cs) ==
    IF Len(cs) < 2 \/ cs[1] \notin {"A", "B", "C", "D", "E", "F", "G"}
    THEN 0
    ELSE LET i == IF cs[2] \in {"#", "b"} THEN 3 ELSE 2
             j == IF i <= Len(cs) /\ cs[i] = "-" THEN i + 1 ELSE i
         IN  IF j <= Len(cs) /\ \A k \in j..Len(cs) : cs[k] \in Digits
             THEN i ELSE 0

\* convertSingleNoteToAbc(note)
ConvertSingleNoteToAbc(note) ==
    LET noteName == AbcNoteName(note)
        i == AbcOctaveStart(noteName)
    IN  IF i = 0 THEN <<"C">>
        ELSE LET negative == noteName[i] = "-"
                 digits == SubSeq(noteName, IF negative THEN i + 1 ELSE i,
                                  Len(noteName))
                 octave == IF negative THEN 0 - DecVal(digits)
                           ELSE DecVal(digits)
                 accidental == IF i = 3
                               THEN (IF noteName[2] = "#" THEN <<"^">>
                                     ELSE <<"_">>)
                               ELSE <<>>
             IN  IF octave <= 3
                 THEN accidental \o <<noteName[1]>> \o Repeat(",", 3 - octave)
                 ELSE IF octave = 4 THEN accidental \o <<noteName[1]>>
                 ELSE accidental \o <<LowerCase(noteName[1])>>
                      \o Repeat("'", octave - 4)

\* Math.abs(a - b) < 0.1
Near(a, b) ==
    LET d == RSub(a, b)
    IN  RLt(IF d[1] < 0 THEN RNeg(d) ELSE d, <<1, 10>>)

\* the characters of an integer
IntChars(k) == IF k < 0 THEN <<"-">> \o NatChars(0 - k) ELSE NatChars(k)

\* a suffix that takes the beat of 120 bpm whatever the tempo is
DurationToAbcNotationAt120(duration, b) ==
    LET ratio == RDiv(duration, <<1, 2>>)
    IN  IF Near(ratio, Num(2)) THEN <<"2">>
        ELSE IF Near(ratio, Num(1)) THEN <<>>
        ELSE IF Near(ratio, <<1, 2>>) THEN <<"/", "2">>
        ELSE IntChars(Round(RMul(ratio, Num(8)))) \o <<"/", "8">>

\* durationToAbcNotation(duration, bpm) for finite numbers
DurationToAbcNotation(duration, b) ==
    LET beatLength == RDiv(Num(60), b)
        ratio == RDiv(duration, beatLength)
        numerator == Round(RMul(ratio, Num(8)))
    IN  IF Near(ratio, Num(4)) THEN <<"4">>
        ELSE IF Near(ratio, Num(2)) THEN <<"2">>
        ELSE IF Near(ratio, Num(1)) THEN <<>>
        ELSE IF Near(ratio, <<1, 2>>) THEN <<"/", "2">>
        ELSE IF Near(ratio, <<1, 4>>) THEN <<"/", "4">>
        ELSE IF Near(ratio, <<1, 8>>) THEN <<"/", "8">>
        ELSE IF Near(ratio, <<3, 2>>) THEN <<"3", "/", "2">>
        ELSE IF Near(ratio, <<3, 4>>) THEN <<"3", "/", "4">>
        ELSE IF Near(ratio, Num(3)) THEN <<"3">>
        ELSE IF Near(ratio, <<2, 3>>) THEN <<"2", "/", "3">>
        ELSE IF Near(ratio, <<1, 3>>) THEN <<"/", "3">>
        ELSE IF numerator = 8 THEN <<>>
        ELSE IntChars(numerator) \o <<"/", "8">>

\* the pitches of a chord, each in a group of its own
AbcPitchesGroupedSingly(note) ==
    IF IsArray(note.note)
    THEN Flatten([k \in 1..Len(note.note.a) |->
             <<"[">> \o ConvertSingleNoteToAbc(note.note.a[k]) \o <<"]">>])
    ELSE ConvertSingleNoteToAbc(note.note)

\* the pitches part of convertNoteToAbcSimple: a chord in brackets
AbcPitches(note) ==
    IF IsArray(note.note)
    THEN <<"[">>
         \o Flatten([k \in 1..Len(note.note.a) |->
                        ConvertSingleNoteToAbc(note.note.a[k])])
         \o <<"]">>
    ELSE ConvertSingleNoteToAbc(note.note)

\* the duration part of convertNoteToAbcSimple
AbcDuration(note, c) ==
    DurationToAbcNotation(
        IF note.duration.t = "string"
        THEN ParseTime(note.duration, BpmOrDefault(c))
        ELSE note.duration.n,
        BpmOrDefault(c))

\* convertNoteToAbcSimple(note, composition)
ConvertNoteToAbcSimple(note, c) == AbcPitches(note) \o AbcDuration(note, c)

\* [...notes].sort by parsed time: a stable sort, here by insertion
RECURSIVE SortByTime(_, _)
SortByTime(notes, b) ==
    IF notes = <<>> THEN <<>>
    ELSE LET rest == SortByTime(SubSeq(notes, 1, Len(notes) - 1), b)
             x == notes[Len(notes)]
             InsertedAfter(k) ==
                 SubSeq(rest, 1, k) \o <<x>> \o SubSeq(rest, k + 1, Len(rest))
         IN  InsertedAfter(Cardinality({i \in 1..Len(rest) :
                 RLe(ParseTime(rest[i].time, b), ParseTime(x.time, b))}))

\* the array sequence.notes sorted where it stands, as
\* sequence.notes.sort(...) leaves it
SequenceNotesSortedInPlace(notes, b) == SortByTime(notes, b)

\* the array sequence.notes once [...sequence.notes].sort(...) has run: the
\* spread makes a new array and sort reorders that one
SequenceNotesAfterSort(notes, b) ==
    notes

\* the composition once the notes of each of its sequences have been
\* through that sort (generateSingleVoiceAbc, generatePatternFromSequence)
AfterSortingNotes(c) ==
    IF ~IsArray(c.sequences) THEN c
    ELSE [c EXCEPT !.sequences =
             JArr([i \in 1..Len(c.sequences.a) |->
                 LET sequence == c.sequences.a[i]
                 IN  IF IsArray(sequence.notes)
                     THEN [sequence EXCEPT !.notes =
                              JArr(SequenceNotesAfterSort(sequence.notes.a,
                                                          BpmOrDefault(c)))]
                     ELSE sequence])]

\* generateSingleVoiceAbc(sequence, composition): one line of music
GenerateSingleVoiceAbc(sequence, c) ==
    LET MusicLine(sortedNotes) ==
            AbcLine("",
                Flatten([k \in 1..Len(sortedNotes) |->
                    (IF k > 1 THEN <<" ">> ELSE <<>>)
                    \o ConvertNoteToAbcSimple(sortedNotes[k], c)])
                \o <<" ", "|", "]">>)
    IN  MusicLine(SortByTime(sequence.notes.a, BpmOrDefault(c)))

\* V:${index + 1} name="${sequence.label || `Voice ${index + 1}`}"
VoiceLine(sequence, i) ==
    AbcLine("V", <<ToString(i), " name=",
                   StrOr(sequence.label, "Voice " \o ToString(i))>>)

\* '%%score ' + the voices
ScoreLine(c) ==
    AbcLine("%%score", [k \in 1..Len(c.sequences.a) |-> "V:" \o ToString(k)])

\* generateMultiVoiceAbc(composition)
GenerateMultiVoiceAbc(c) ==
    Flatten([k \in 1..Len(c.sequences.a) |->
        <<VoiceLine(c.sequences.a[k], k),
          GenerateSingleVoiceAbc(c.sequences.a[k], c)>>])

---------------------------------------------------------------------------
(* Inputs of the time parser. *)

Concat3(a, b, c) == a \o b \o c

\* every character sequence of length at most k over the alphabet A
StringsUpTo(A, k) == UNION {[1..n -> A] : n \in 0..k}

TimeAlphabet == {"0", "1", "4", ".", ":", "-", "n", "t", "x"}

\* pieces that stand where a number is expected
NumStrs == {<<"0">>, <<"1">>, <<"2">>, <<"1", ".", "5">>, <<"2", "4", "0">>,
            <<>>, <<"x">>}

DigitStrs == {<<"0">>, <<"1">>, <<"2">>, <<"3">>, <<"4">>, <<"8">>,
              <<"1", "6">>}

TimeStrings ==
    StringsUpTo(TimeAlphabet, MaxStrLen)
    \cup {d \o <<u>> : d \in DigitStrs \cup NumStrs, u \in NoteTypes}
    \cup {Concat3(a, <<":">>, b) : a \in NumStrs, b \in NumStrs}
    \cup {Concat3(a, <<":">>, b) \o Concat3(<<":">>, c, <<>>) :
              a \in NumStrs, b \in NumStrs, c \in NumStrs}

TimeNumbers == {Num(0), Num(5), <<3, 2>>, <<-1, 4>>}

TimeInputs ==
    {JStr(cs) : cs \in TimeStrings}
    \cup {JNum(r) : r \in TimeNumbers}
    \cup {JUndefined, JObject}

Bpms == {Num(60), Num(90), Num(120)}

---------------------------------------------------------------------------
(* Values of the variables a specification does not use. *)

TimeIdle == timeString = JUndefined /\ bpm = Num(120) /\ seconds = Num(0)

TempoIdle ==
    /\ tempoMap = <<>>
    /\ time = Num(0)
    /\ defaultBpm = JNum(Num(120))
    /\ effectiveTempo = JUndefined

NoValidation == [success |-> FALSE, errors |-> <<>>, warnings |-> <<>>]

ValidateIdle == composition = EmptyObject /\ validation = NoValidation

NormalizeIdle ==
    /\ rawInput = EmptyObject
    /\ normalized = EmptyObject
    /\ normalizedTwice = EmptyObject

NoRun ==
    [outcome |-> "none", stages |-> <<>>, midi |-> EmptyMidi,
     encoded |-> EmptyObject]

\* the locals of a converter call that has not started
ConvertFresh ==
    /\ normalizedComposition = EmptyObject
    /\ stages = <<>>
    /\ midi = EmptyMidi
    /\ midiFile = <<>>
    /\ run = 1
    /\ firstRun = NoRun

ConvertIdle == converter = "none" /\ ConvertFresh

\* no converter has written anything
OutputIdle == abc = <<>> /\ sc = <<>>

\* no helper function is called on its own
NoCall == "none"

CallIdle == argument = NoCall /\ returned = NoCall /\ locals = NoCall

---------------------------------------------------------------------------
(* Specification of the time parser: one call of jmonTone.parseTimeString  *)
(* on an arbitrary expression and tempo.                                   *)

InitTime ==
    /\ OutputIdle
    /\ CallIdle
    /\ pc = "call"
    /\ timeString \in TimeInputs
    /\ bpm \in Bpms
    /\ seconds = Num(0)
    /\ TempoIdle
    /\ ValidateIdle
    /\ NormalizeIdle
    /\ ConvertIdle

CallParseTimeString ==
    /\ pc = "call"
    /\ seconds' = ParseTimeString(timeString, bpm)
    /\ pc' = "done"
    /\ UNCHANGED <<timeString, bpm, tempoVars, validateVars, normalizeVars,
                   convertVars, outputVars, callVars>>

NextTime == CallParseTimeString

SpecTime == InitTime /\ [][NextTime]_vars

---------------------------------------------------------------------------
(* The rule table of the time resolver, stated as beats times 60/bpm. *)

RefBeatsOfToken(v, u) ==
    CASE u = "n" -> RDiv(Num(4), v)
      [] u = "m" -> RMul(Num(4), v)
      [] u = "h" -> RMul(Num(2), v)
      [] u = "q" -> v
      [] u = "w" -> RMul(Num(4), v)
      [] u = "t" -> RMul(RDiv(Num(4), v), <<2, 3>>)
      [] u = "s" -> RDiv(v, Num(4))

\* the numeric value of a piece of text, 0 when it has none
RefNumeric(cs) == LET v == ParseFloat(cs) IN IF IsNaN(v) THEN Num(0) ELSE v

RefField(parts, i) == IF i <= Len(parts) THEN RefNumeric(parts[i]) ELSE Num(0)

RefSeconds(ts, b) ==
    LET beat == RDiv(Num(60), b)
        cs   == ts.s
    IN  IF ts.t = "number" THEN ts.n
        ELSE IF MatchesNoteValue(cs)
             THEN RMul(beat, RefBeatsOfToken(
                      Num(DecVal(SubSeq(cs, 1, Len(cs) - 1))), cs[Len(cs)]))
        ELSE IF Includes(cs, ":")
             THEN LET parts == Split(cs, ":")
                  IN  RMul(beat,
                           RAdd(RAdd(RMul(Num(4), RefField(parts, 1)),
                                     RefField(parts, 2)),
                                RDiv(RefField(parts, 3), Num(480))))
        ELSE RefNumeric(cs)

C6_ParseTimeTotalFinite ==
    pc = "done" =>
        /\ IsFinite(seconds)
        /\ (timeString.t \notin {"number", "string"} => seconds = Num(0))
        /\ ( ( /\ timeString.t = "string"
               /\ ~MatchesNoteValue(timeString.s)
               /\ ~Includes(timeString.s, ":")
               /\ IsNaN(ParseFloat(timeString.s)) )
             => seconds = Num(0) )

---------------------------------------------------------------------------
(* Specification of the tempo lookup: one call of jmonTone.getTempoAtTime  *)
(* on an arbitrary tempo map; nothing in the code sorts or checks the      *)
(* order of a tempo map.                                                   *)

\* most entries of an enumerated tempo map
MaxTempoEntries == 3

TempoTimes == {JNum(Num(0)), JNum(Num(4)), JNum(Num(8)),
               JStr(<<"1", ":", "0">>)}

TempoBpms == {JNum(Num(90)), JNum(Num(120)), JNum(Num(150))}

TempoChanges == [time : TempoTimes, bpm : TempoBpms]

TempoMaps == UNION {[1..n -> TempoChanges] : n \in 0..MaxTempoEntries}

QueryTimes == {Num(-1), Num(2), Num(4), Num(5)}

InitTempo ==
    /\ OutputIdle
    /\ CallIdle
    /\ pc = "call"
    /\ tempoMap \in TempoMaps
    /\ time \in QueryTimes
    /\ defaultBpm = JNum(Num(100))
    /\ effectiveTempo = JUndefined
    /\ TimeIdle
    /\ ValidateIdle
    /\ NormalizeIdle
    /\ ConvertIdle

CallGetTempoAtTime ==
    /\ pc = "call"
    /\ effectiveTempo' = GetTempoAtTime(tempoMap, time, defaultBpm)
    /\ pc' = "done"
    /\ UNCHANGED <<tempoMap, time, defaultBpm, timeVars, validateVars,
                   normalizeVars, convertVars, outputVars, callVars>>

NextTempo == CallGetTempoAtTime

SpecTempo == InitTempo /\ [][NextTempo]_vars

\* the resolved time of entry i (seconds, at the parser's default tempo)
ResolvedTime(tm, i) == RefSeconds(tm[i].time, Num(120))

\* the entries of the map at or before t
AtOrBefore(tm, t) == {i \in 1..Len(tm) : RLe(ResolvedTime(tm, i), t)}

Max(S) == CHOOSE m \in S : \A x \in S : x <= m

\* the tempo of the last entry, in array order, at or before t
StepTempo(tm, t, d) ==
    IF AtOrBefore(tm, t) = {} THEN d ELSE tm[Max(AtOrBefore(tm, t))].bpm

SortedByTime(tm) ==
    \A i \in 1..Len(tm) : \A j \in 1..Len(tm) :
        i < j => RLe(ResolvedTime(tm, i), ResolvedTime(tm, j))

\* C7 as stated: for every tempo map and every t, getTempoAtTime returns the
\* bpm of the last entry in array order whose resolved time is <= t, and
\* defaultBpm when there is none.
C7_Original_LastEntryAtOrBefore ==
    pc = "done" => effectiveTempo = StepTempo(tempoMap, time, defaultBpm)

\* C7 amended: for every tempo map whose entries are in non-decreasing order
\* of resolved time, getTempoAtTime returns the bpm of the last entry in
\* array order whose resolved time is <= t (the later of equal times wins),
\* and defaultBpm when the map is empty or has no such entry.
C7_SortedMapLastEntryAtOrBefore ==
    (pc = "done" /\ SortedByTime(tempoMap))
        => effectiveTempo = StepTempo(tempoMap, time, defaultBpm)

\* C7 witness: [{0,120},{4,90},{8,150}] at t = 5 has given 90.
C7_Witness ==
    /\ pc = "done"
    /\ tempoMap = << [time |-> JNum(Num(0)), bpm |-> JNum(Num(120))],
                     [time |-> JNum(Num(4)), bpm |-> JNum(Num(90))],
                     [time |-> JNum(Num(8)), bpm |-> JNum(Num(150))] >>
    /\ time = Num(5)
    /\ effectiveTempo = JNum(Num(90))

---------------------------------------------------------------------------
(* Specification of the validator: one call of jmonTone.validate on a      *)
(* composition object.                                                     *)

\* most notes of an enumerated sequence
MaxValidateNotes == 2

GoodNote ==
    [EmptyNote EXCEPT !.time = JStr(<<"0", ":", "0", ":", "0">>),
                      !.note = JStr(<<"C", "4">>),
                      !.duration = JStr(<<"4", "n">>),
                      !.velocity = JNum(<<4, 5>>)]

GoodModulation ==
    Modulation("cc", JNum(Num(64)), JNum(Num(0)), JNum(Num(1)))

NoteVariants ==
    {GoodNote,
     [GoodNote EXCEPT !.time = JUndefined],
     [GoodNote EXCEPT !.time = JNum(Num(0))],
     [GoodNote EXCEPT !.note = JUndefined],
     [GoodNote EXCEPT !.note = JNum(Num(0))],
     [GoodNote EXCEPT !.note = JNum(Num(60))],
     [GoodNote EXCEPT !.note = JArr(<<JStr(<<"C", "4">>), JNum(Num(64))>>)],
     [GoodNote EXCEPT !.duration = JUndefined],
     [GoodNote EXCEPT !.duration = JNum(Num(0))],
     [GoodNote EXCEPT !.velocity = JNum(<<3, 2>>)],
     [GoodNote EXCEPT !.channel = JNum(Num(16))],
     [GoodNote EXCEPT !.channel = JNum(Num(9))],
     [GoodNote EXCEPT !.channel = JNum(Num(-1))],
     [GoodNote EXCEPT !.modulations = JArr(<<GoodModulation>>)],
     [GoodNote EXCEPT !.modulations =
          JArr(<<[GoodModulation EXCEPT !.type = "lfo"]>>)],
     [GoodNote EXCEPT !.modulations =
          JArr(<<[GoodModulation EXCEPT !.value = JUndefined]>>)]}

NoteLists == UNION {[1..n -> NoteVariants] : n \in 0..MaxValidateNotes}

GoodSequence ==
    [EmptySequence EXCEPT !.label = "lead", !.synthRef = "synth",
                          !.notes = JArr(<<GoodNote>>)]

SequenceVariants ==
    {[GoodSequence EXCEPT !.label = l, !.synthRef = sy[1], !.synth = sy[2],
                          !.midiChannel = ch, !.notes = ns] :
         l \in {"", "lead"},
         sy \in {<<"synth", "">>, <<"", "Synth">>, <<"", "">>},
         ch \in {JUndefined, JNum(Num(0)), JNum(Num(16))},
         ns \in {JUndefined, JArr(<<GoodNote>>)}}
    \cup {[GoodSequence EXCEPT !.notes = JArr(ns)] : ns \in NoteLists}

SequencesVariants ==
    {JUndefined, JArr(<<>>)}
    \cup {JArr(<<sq>>) : sq \in SequenceVariants}
    \cup {JArr(<<GoodSequence, sq>>) : sq \in SequenceVariants}

DefaultAudioGraph ==
    JArr(<<AudioGraphNode("synth", "Synth", TRUE),
           AudioGraphNode("master", "Destination", TRUE)>>)

DefaultConnections == JArr(<<Connection(<<"synth", "master">>)>>)

GoodComposition ==
    [EmptyObject EXCEPT !.format = FORMAT_IDENTIFIER, !.version = VERSION,
                        !.bpm = JNum(Num(120)),
                        !.audioGraph = DefaultAudioGraph,
                        !.connections = DefaultConnections,
                        !.sequences = JArr(<<GoodSequence>>)]

TempoChange(t, b) == [time |-> t, bpm |-> b]

RootVariants ==
    {[GoodComposition EXCEPT !.format = f, !.version = v, !.bpm = b,
                             !.keySignature = k, !.tempoMap = tm,
                             !.connections = cn, !.audioGraph = ag] :
         f \in {"", FORMAT_IDENTIFIER, "jmon"},
         v \in {"", VERSION},
         b \in {JUndefined, JNum(Num(0)), JNum(Num(120)), JNum(Num(500))},
         k \in {<<>>, <<"C">>, <<"H">>},
         tm \in {JUndefined,
                 JArr(<<TempoChange(JNum(Num(0)), JNum(Num(120)))>>),
                 JArr(<<TempoChange(JNum(Num(4)), JNum(Num(90)))>>),
                 JArr(<<TempoChange(JNum(Num(4)), JNum(Num(500)))>>)},
         cn \in {JUndefined, DefaultConnections,
                 JArr(<<Connection(<<"synth">>)>>),
                 JArr(<<Connection(<<"synth", "reverb">>)>>)},
         ag \in {JUndefined, DefaultAudioGraph,
                 JArr(<<AudioGraphNode("", "Synth", TRUE),
                        AudioGraphNode("fx", "Granular", FALSE)>>)}}

ValidateInputs ==
    RootVariants
    \cup {[GoodComposition EXCEPT !.sequences = sqs] :
              sqs \in SequencesVariants}

InitValidate ==
    /\ OutputIdle
    /\ CallIdle
    /\ pc = "call"
    /\ composition \in ValidateInputs
    /\ validation = NoValidation
    /\ TimeIdle
    /\ TempoIdle
    /\ NormalizeIdle
    /\ ConvertIdle

CallValidate ==
    /\ pc = "call"
    /\ validation' = Validate(composition)
    /\ pc' = "done"
    /\ UNCHANGED <<composition, timeVars, tempoVars, normalizeVars,
                   convertVars, outputVars, callVars>>

NextValidate == CallValidate

SpecValidate == InitValidate /\ [][NextValidate]_vars

\* the sequences and notes of a composition
SequencesOf(c) ==
    IF IsArray(c.sequences)
    THEN {c.sequences.a[i] : i \in 1..Len(c.sequences.a)} ELSE {}

NotesOf(sq) ==
    IF IsArray(sq.notes) THEN {sq.notes.a[j] : j \in 1..Len(sq.notes.a)}
    ELSE {}

ModulationsOf(note) ==
    IF IsArray(note.modulations)
    THEN {note.modulations.a[k] : k \in 1..Len(note.modulations.a)} ELSE {}

ConnectionsOf(c) ==
    IF IsArray(c.connections)
    THEN {c.connections.a[i] : i \in 1..Len(c.connections.a)} ELSE {}

ChannelOutside(v) ==
    v.t = "number" /\ (RLt(v.n, Num(0)) \/ RLt(Num(15), v.n))

\* the structural-error conditions the validator's contract lists
StructuralError(c) ==
    \/ c.format = "" \/ c.version = "" \/ ~IsDefined(c.bpm)
    \/ ~IsArray(c.sequences)
    \/ \E sq \in SequencesOf(c) :
           \/ ~IsArray(sq.notes)
           \/ (sq.synth = "" /\ sq.synthRef = "")
           \/ ChannelOutside(sq.midiChannel)
           \/ \E note \in NotesOf(sq) :
                  \/ ~IsDefined(note.time) \/ ~IsDefined(note.note)
                  \/ ~IsDefined(note.duration)
                  \/ ChannelOutside(note.channel)
                  \/ \E mod \in ModulationsOf(note) :
                         mod.type \notin {"cc", "pitchBend", "aftertouch"}
    \/ \E cn \in ConnectionsOf(c) : ~cn.isArray \/ Len(cn.ends) # 2

\* C1: validate(x).success is true exactly when none of the listed
\* structural-error conditions holds for x (format, version, bpm or sequences
\* missing; a sequence without a notes array or without both synth and
\* synthRef; a note without time, note or duration; a connection that is not
\* a pair; a MIDI channel outside 0..15; an unknown modulation type).
C1_SuccessIffNoStructuralError ==
    pc = "done" => (validation.success <=> ~StructuralError(composition))

\* the part of C1 the validator's own documentation states: a sequence with
\* neither synth nor synthRef fails validation
C1_MissingSynthIsAnError ==
    pc = "done" =>
        ((\E sq \in SequencesOf(composition) :
              sq.synth = "" /\ sq.synthRef = "") => ~validation.success)

---------------------------------------------------------------------------
(* Specification of the normalizer: jmonTone.normalize applied to an input *)
(* of any recognized shape, and then to its own result.                    *)

\* most notes of an enumerated note list of a non-canonical input
MaxRawNotes == 2

C4Name == JStr(<<"C", "4">>)
A4Name == JStr(<<"A", "4">>)

\* note-like objects in the field names the examples use
RawNotes ==
    {[EmptyNote EXCEPT !.pitch = JNum(Num(60)), !.duration = JNum(Num(1)),
                       !.time = JNum(Num(0))],
     [EmptyNote EXCEPT !.pitch = JNum(Num(62)), !.duration = JNum(<<1, 2>>),
                       !.time = JNum(<<3, 2>>)],
     [EmptyNote EXCEPT !.pitch = JNum(Num(67)), !.duration = JNum(Num(2)),
                       !.time = JNum(Num(6)), !.velocity = JNum(<<1, 2>>)],
     [EmptyNote EXCEPT !.note = C4Name, !.duration = JStr(<<"4", "n">>),
                       !.time = JStr(<<"0", ":", "1", ":", "0">>)],
     [EmptyNote EXCEPT !.note = A4Name, !.start = JNum(Num(0)),
                       !.length = JStr(<<"2", "n">>),
                       !.volume = JNum(<<4, 5>>)],
     [EmptyNote EXCEPT !.pitch = JNum(Num(72)), !.time = JNum(Num(2)),
                       !.duration = JNum(Num(1)),
                       !.velocity = JNum(Num(100))],
     [EmptyNote EXCEPT !.frequency = JNum(Num(440)),
                       !.duration = JNum(Num(1)), !.time = JNum(Num(0))],
     [EmptyNote EXCEPT !.frequency = JNum(<<12347, 25>>),
                       !.duration = JNum(<<1, 2>>), !.time = JNum(Num(1))],
     [EmptyNote EXCEPT !.pitch = JNum(Num(60)), !.duration = JNum(Num(0)),
                       !.time = JNum(Num(1))],
     [EmptyNote EXCEPT !.pitch = C4Name, !.duration = JNum(<<3, 2>>),
                       !.channel = JNum(Num(3))],
     [EmptyNote EXCEPT !.volume = JNum(Num(100))]}

RawNoteLists == UNION {[1..n -> RawNotes] : n \in 0..MaxRawNotes}

Track(name, notes) == [EmptySequence EXCEPT !.name = name, !.notes = notes]

\* { tracks: { melody: [...], bass: [...] } }
TracksInputs(lists) ==
    {[EmptyObject EXCEPT !.title = ti, !.tracks = JArr(<<Track("melody",
                                                                JArr(ns))>>)] :
         ti \in {"", "Twinkle"}, ns \in lists}
    \cup {[EmptyObject EXCEPT !.tempo = JNum(Num(90)),
                              !.tracks = JArr(<<Track("melody", JArr(ns)),
                                                Track("bass", JArr(ns))>>)] :
              ns \in lists}

\* items of a sequences / parts array, in their various field names
SequenceItems(ns) ==
    {[EmptySequence EXCEPT !.name = "lead", !.notes = JArr(ns)],
     [EmptySequence EXCEPT !.label = "lead", !.synthRef = "bass",
                           !.notes = JArr(ns)],
     [EmptySequence EXCEPT !.isArray = TRUE, !.items = ns]}

SequencesInputs(lists) ==
    {[EmptyObject EXCEPT !.title = "Mixed Example", !.bpm = JNum(Num(140)),
                         !.sequences = JArr(<<it>>)] :
         it \in UNION {SequenceItems(ns) : ns \in lists}}
    \cup {[EmptyObject EXCEPT !.composer = "Anon", !.key = <<"G">>,
                              !.parts = JArr(<<it, it>>)] :
              it \in UNION {SequenceItems(ns) : ns \in lists}}
    \cup {[EmptyObject EXCEPT !.sequences = JObject]}

SingleTrackInputs(lists) ==
    {[EmptyObject EXCEPT !.name = nm, !.notes = JArr(ns)] :
         nm \in {"", "solo"}, ns \in lists}
    \cup {[EmptyObject EXCEPT !.melody = JArr(ns), !.author = "Anon"] :
              ns \in lists}
    \cup {EmptyObject}

ArrayInputs(lists) ==
    {[EmptyObject EXCEPT !.isArray = TRUE, !.items = ns] : ns \in lists}

\* the input shapes that are not canonical compositions, over given note lists
NonCanonicalOver(lists) ==
    ArrayInputs(lists) \cup TracksInputs(lists) \cup SequencesInputs(lists)
    \cup SingleTrackInputs(lists)

NonCanonicalInputs == NonCanonicalOver(RawNoteLists)

CanonicalInputs ==
    {GoodComposition,
     [GoodComposition EXCEPT !.sequences = JUndefined],
     [GoodComposition EXCEPT !.version = "", !.bpm = JUndefined],
     [GoodComposition EXCEPT !.sequences =
          JArr(<<GoodSequence, [GoodSequence EXCEPT !.label = "bass"]>>)]}

NormalizeInputs ==
    NonCanonicalInputs \cup CanonicalInputs
    \cup {[GoodComposition EXCEPT !.format = "jmon"]}

InitNormalize ==
    /\ OutputIdle
    /\ CallIdle
    /\ pc = "call"
    /\ rawInput \in NormalizeInputs
    /\ normalized = EmptyObject
    /\ normalizedTwice = EmptyObject
    /\ TimeIdle
    /\ TempoIdle
    /\ ValidateIdle
    /\ ConvertIdle

CallNormalize ==
    /\ pc = "call"
    /\ normalized' = Normalize(rawInput)
    /\ pc' = "normalized"
    /\ UNCHANGED <<rawInput, normalizedTwice, timeVars, tempoVars,
                   validateVars, convertVars, outputVars, callVars>>

CallNormalizeAgain ==
    /\ pc = "normalized"
    /\ normalizedTwice' = Normalize(normalized)
    /\ pc' = "done"
    /\ UNCHANGED <<rawInput, normalized, timeVars, tempoVars, validateVars,
                   convertVars, outputVars, callVars>>

NextNormalize == CallNormalize \/ CallNormalizeAgain

SpecNormalize == InitNormalize /\ [][NextNormalize]_vars

\* C3: normalize is idempotent: normalize(normalize(x)) = normalize(x) for
\* every input x of a recognized shape.
C3_NormalizeIdempotent ==
    pc = "done" => normalizedTwice = normalized

\* C3 witness: a non-canonical input (a flat array of notes) has been
\* normalized twice, and the first result differs from the input.
C3_Witness ==
    /\ pc = "done"
    /\ rawInput.isArray
    /\ Len(rawInput.items) = 2
    /\ normalized # rawInput
    /\ Len(normalized.sequences.a) = 1

---------------------------------------------------------------------------
(* Specification of the MIDI path: JmonToMidi.convertToMidi on a canonical *)
(* composition, step by step, followed by createMidiFromTracks on the Midi *)
(* object it returned; and createMidiFromTracks called on tracks of the    *)
(* caller's own.                                                           *)

MaxMidiNotes == 2
MaxMidiTracks == 2

MidiNotes ==
    {GoodNote,
     [GoodNote EXCEPT !.note = JNum(Num(60)), !.time = JNum(Num(1)),
                      !.duration = JNum(Num(1)), !.velocity = JUndefined],
     [GoodNote EXCEPT !.note = JArr(<<C4Name, JNum(Num(64))>>),
                      !.duration = JNum(<<1, 2>>),
                      !.velocity = JNum(Num(1))],
     [GoodNote EXCEPT !.note = JArr(<<JNum(Num(0))>>),
                      !.velocity = JNum(<<1, 2>>)],
     [GoodNote EXCEPT !.note = JStr(<<"G", "9">>),
                      !.channel = JNum(Num(3)), !.velocity = JNum(Num(0))],
     [GoodNote EXCEPT !.time = JStr(<<"8", ":", "0", ":", "0">>),
                      !.note = JNum(Num(64)), !.velocity = JNum(<<1, 100>>)],
     [GoodNote EXCEPT !.note = JNum(Num(127)), !.time = JNum(<<1, 4>>),
                      !.duration = JStr(<<"2", "m">>),
                      !.channel = JNum(Num(0))]}

MidiNoteLists == UNION {[1..n -> MidiNotes] : n \in 0..MaxMidiNotes}

MidiFirstSequences ==
    {[GoodSequence EXCEPT !.notes = JArr(ns), !.midiChannel = ch] :
         ns \in MidiNoteLists, ch \in {JUndefined, JNum(Num(9))}}

BassSequence == [GoodSequence EXCEPT !.label = "bass"]

\* a first sequence followed by n more
WithMore(sequence, n) == <<sequence>> \o [k \in 1..n |-> BassSequence]

\* tempos validate accepts: inside 20..400 and, with a warning, outside
MidiBpms == {Num(1), Num(3), Num(4), Num(20), <<181, 2>>, Num(400), Num(500)}

MidiInputs ==
    {[GoodComposition EXCEPT !.bpm = JNum(b)] : b \in MidiBpms}
    \cup
    {[GoodComposition EXCEPT !.bpm = JNum(b),
                             !.sequences = JArr(WithMore(sq, n))] :
         b \in {Num(60), Num(120)}, sq \in MidiFirstSequences,
         n \in 0..(MaxMidiTracks - 1)}
    \cup {[GoodComposition EXCEPT !.tempoMap =
               JArr(<<TempoChange(JNum(Num(4)), JNum(Num(90)))>>)],
          [GoodComposition EXCEPT !.sequences = JArr(<<>>)],
          [GoodComposition EXCEPT !.sequences = JUndefined],
          [GoodComposition EXCEPT !.sequences =
               JArr(<<[GoodSequence EXCEPT !.notes = JUndefined]>>)]}

\* notes a caller hands to createMidiFromTracks directly
TrackNote(m, t, d, v) ==
    [midi |-> m, time |-> t, duration |-> d, velocity |-> v,
     channel |-> Num(0)]

DirectNotes ==
    {TrackNote(Num(60), Num(0), Num(1), <<4, 5>>),
     TrackNote(Num(72), Num(2), Num(0), Num(0)),
     TrackNote(Num(0), Num(40), <<1, 2>>, Num(1)),
     TrackNote(Num(127), <<1, 2>>, Num(300), <<1, 2>>)}

DirectNoteLists == UNION {[1..n -> DirectNotes] : n \in 0..MaxMidiNotes}

DirectTrack(ns, ch) == [name |-> "Track 1", channel |-> ch, notes |-> ns]

DirectMidis ==
    {[tempos |-> tp,
      tracks |-> <<DirectTrack(ns, ch)>>
                 \o [k \in 1..n |-> DirectTrack(<<>>, Num(1))]] :
         tp \in {<<>>, <<[time |-> Num(0), bpm |-> Num(90)]>>},
         ns \in DirectNoteLists, ch \in {Num(0), Num(15)},
         n \in 0..(MaxMidiTracks - 1)}

InitMidi ==
    /\ OutputIdle
    /\ CallIdle
    /\ \/ /\ pc = "start"
          /\ converter = "midi"
          /\ composition \in MidiInputs
          /\ midi = EmptyMidi
       \/ /\ pc = "returned"
          /\ converter = "none"
          /\ composition = EmptyObject
          /\ midi \in DirectMidis
    /\ validation = NoValidation
    /\ normalizedComposition = EmptyObject
    /\ stages = <<>>
    /\ midiFile = <<>>
    /\ run = 1
    /\ firstRun = NoRun
    /\ TimeIdle
    /\ TempoIdle
    /\ NormalizeIdle

\* a guard that lets every composition through
ValidationSkipped(c) == TRUE

\* does the converter's validation guard let the call go on
ValidationPasses(c) == Validate(c).success

\* const normalizedComposition = jmonTone.normalize(composition)
MidiNormalize ==
    /\ pc = "start"
    /\ converter = "midi"
    /\ normalizedComposition' = Normalize(composition)
    /\ pc' = "validate"
    /\ UNCHANGED <<converter, stages, midi, midiFile, run, firstRun,
                   timeVars, tempoVars, validateVars, normalizeVars,
                   outputVars, callVars>>

\* if (!jmonTone.validate(normalizedComposition).success) throw
MidiValidate ==
    /\ pc = "validate"
    /\ converter = "midi"
    /\ validation' = Validate(normalizedComposition)
    /\ pc' = IF ValidationPasses(normalizedComposition) THEN "header"
             ELSE "threw"
    /\ UNCHANGED <<composition, convertVars, timeVars, tempoVars,
                   normalizeVars, outputVars, callVars>>

\* midi = new Tone.Midi(); the header and its tempos
MidiHeader ==
    /\ pc = "header"
    /\ converter = "midi"
    /\ midi' = [midi EXCEPT !.tempos = MidiTempos(normalizedComposition)]
    /\ stages' = Append(stages, "header")
    /\ pc' = "tracks"
    /\ UNCHANGED <<converter, normalizedComposition, midiFile, run, firstRun,
                   timeVars, tempoVars, validateVars, normalizeVars,
                   outputVars, callVars>>

\* normalizedComposition.sequences.forEach(...); return midi
MidiSequences ==
    /\ pc = "tracks"
    /\ converter = "midi"
    /\ midi' = [midi EXCEPT !.tracks = MidiTracks(normalizedComposition)]
    /\ stages' = stages \o [k \in 1..Len(normalizedComposition.sequences.a)
                               |-> "track"]
    /\ pc' = "returned"
    /\ UNCHANGED <<converter, normalizedComposition, midiFile, run, firstRun,
                   timeVars, tempoVars, validateVars, normalizeVars,
                   outputVars, callVars>>

\* exportMidiAsFile falling back on createMidiFromTracks(midi)
ExportMidi ==
    /\ pc = "returned"
    /\ converter \in {"midi", "none"}
    /\ run = 1
    /\ Len(midi.tracks) > 0
    /\ midiFile' = CreateMidiFromTracks(midi)
    /\ pc' = "exported"
    /\ UNCHANGED <<converter, normalizedComposition, stages, midi, run,
                   firstRun, timeVars, tempoVars, validateVars,
                   normalizeVars, outputVars, callVars>>

NextMidi ==
    \/ MidiNormalize
    \/ MidiValidate
    \/ MidiHeader
    \/ MidiSequences
    \/ ExportMidi

SpecMidi == InitMidi /\ [][NextMidi]_vars

(* Reading a byte buffer back: the chunks found by following the declared  *)
(* lengths from the end of the 14-byte header chunk.                       *)

HeaderLength == 14

\* the big-endian number in buf[from..to]
RECURSIVE BigEndian(_, _, _)
BigEndian(buf, from, to) ==
    IF from > to THEN 0
    ELSE BigEndian(buf, from, to - 1) * 256 + buf[to]

\* offsets (counted from 0) of the chunks met from offset off on; a chunk
\* whose 8-byte head does not fit ends the walk with the marker -1
RECURSIVE ChunkOffsets(_, _)
ChunkOffsets(buf, off) ==
    IF off = Len(buf) THEN <<>>
    ELSE IF off + 8 > Len(buf) THEN <<-1>>
    ELSE <<off>>
         \o ChunkOffsets(buf, off + 8 + BigEndian(buf, off + 5, off + 8))

DeclaredLength(buf, off) == BigEndian(buf, off + 5, off + 8)

\* the payload of the chunk at offset off
Payload(buf, off) ==
    SubSeq(buf, off + 9, off + 8 + DeclaredLength(buf, off))

\* the number of places where the four bytes "MTrk" stand in buf
MTrkCount(buf) ==
    Cardinality({k \in 1..(Len(buf) - 3) : SubSeq(buf, k, k + 3) = MTrk})

RECURSIVE SumOf(_)
SumOf(xs) == IF xs = <<>> THEN 0 ELSE Head(xs) + SumOf(Tail(xs))

HeaderWellFormed ==
    /\ Len(midiFile) >= HeaderLength
    /\ SubSeq(midiFile, 1, 4) = MThd
    /\ BigEndian(midiFile, 5, 8) = 6
    /\ BigEndian(midiFile, 9, 10) = 1

DeclaredTrackCount == BigEndian(midiFile, 11, 12)

\* C8 as stated: after convertToMidi and createMidiFromTracks the header is
\* format 1 with a 6-byte payload, its track count is
\* composition.sequences.length + 1, and the buffer holds that many MTrk
\* chunks.
C8_Original_TrackCountIsSequencesPlusOne ==
    (pc = "exported" /\ converter = "midi") =>
        /\ HeaderWellFormed
        /\ DeclaredTrackCount = Len(composition.sequences.a) + 1
        /\ MTrkCount(midiFile) = DeclaredTrackCount

\* C8, amended: the header is format 1 with a 6-byte payload, its track
\* count is composition.sequences.length (the tempo event is the first event
\* of the first sequence's track, there is no track of its own for it), and
\* the buffer holds that many MTrk chunks.
C8_TrackCountIsSequences ==
    (pc = "exported" /\ converter = "midi") =>
        /\ HeaderWellFormed
        /\ DeclaredTrackCount = Len(composition.sequences.a)
        /\ MTrkCount(midiFile) = DeclaredTrackCount
        /\ Len(ChunkOffsets(midiFile, HeaderLength)) = DeclaredTrackCount
        /\ SubSeq(midiFile, HeaderLength + 9, HeaderLength + 12)
               = <<0, 255, 81, 3>>

C8_Witness ==
    /\ pc = "exported"
    /\ converter = "midi"
    /\ Len(composition.sequences.a) = 2
    /\ DeclaredTrackCount = 2
    /\ Len(composition.sequences.a[1].notes.a) = 2

\* C9: every MTrk chunk of the buffer of createMidiFromTracks has a 4-byte
\* big-endian length prefix equal to the number of payload bytes after it,
\* its payload ends with FF 2F 00, and the buffer is as long as the header
\* and the chunks together.
C9_ChunkLengthsExact ==
    pc = "exported" =>
        LET offs == ChunkOffsets(midiFile, HeaderLength)
        IN  /\ Len(offs) = Len(midi.tracks)
            /\ \A k \in 1..Len(offs) :
                 LET off == offs[k]
                     n == DeclaredLength(midiFile, off)
                 IN  /\ off >= HeaderLength
                     /\ SubSeq(midiFile, off + 1, off + 4) = MTrk
                     /\ off + 8 + n <= Len(midiFile)
                     /\ n = Len(Uint8Array(TrackEvents(midi.tracks[k], k - 1,
                               IF midi.tempos # <<>> THEN midi.tempos[1].bpm
                               ELSE Num(DefaultBpm))))
                     /\ n >= 3
                     /\ SubSeq(Payload(midiFile, off), n - 2, n)
                            = <<255, 47, 0>>
            /\ Len(midiFile)
                   = HeaderLength
                     + SumOf([k \in 1..Len(offs) |->
                                 8 + DeclaredLength(midiFile, offs[k])])

C9_Witness ==
    /\ pc = "exported"
    /\ Len(midi.tracks) = 2
    /\ Len(midi.tracks[1].notes) = 2
    /\ DeclaredLength(midiFile, HeaderLength) > 20
    /\ Len(midiFile) > HeaderLength + 8 + DeclaredLength(midiFile, HeaderLength)

\* the notes of a composition, each with the channel of its sequence
NotesWithChannel(c) ==
    Flatten([i \in 1..Len(c.sequences.a) |->
        [j \in 1..Len(c.sequences.a[i].notes.a) |->
            [note |-> c.sequences.a[i].notes.a[j],
             midiChannel |-> c.sequences.a[i].midiChannel,
             track |-> i]]])

\* the pitches of a note as numbers
PitchesOf(note) ==
    LET ns == IF IsArray(note.note) THEN note.note.a ELSE <<note.note>>
    IN  {IF ns[k].t = "number" THEN Floor(ns[k].n)
         ELSE NoteNameToMidiNote(ns[k].s) : k \in 1..Len(ns)}

\* the channel of a note: its own, else its sequence's, else 0
ChannelOf(e) ==
    IF IsDefined(e.note.channel) THEN Floor(e.note.channel.n)
    ELSE IF IsDefined(e.midiChannel) THEN Floor(e.midiChannel.n)
    ELSE 0

\* does the three-byte event <<a, b, c>> stand in buf somewhere
Contains(buf, a, b, c) ==
    \E k \in 1..(Len(buf) - 2) : SubSeq(buf, k, k + 2) = <<a, b, c>>

\* C10 as stated: for every note of a validated composition with velocity
\* v in [0,1], pitch p in 0..127 and channel c in 0..15 the bytes hold a
\* note-on 0x90|c, p, round(v*127) and a note-off 0x80|c, p, 0.
C10_NoteOnOffBytes ==
    (pc = "exported" /\ converter = "midi") =>
        \A e \in {NotesWithChannel(composition)[k] :
                     k \in 1..Len(NotesWithChannel(composition))} :
            e.note.velocity.t = "number" =>
                \A p \in PitchesOf(e.note) :
                    /\ Contains(midiFile, 144 + ChannelOf(e), p,
                                Round(RMul(e.note.velocity.n, Num(127))))
                    /\ Contains(midiFile, 128 + ChannelOf(e), p, 0)

---------------------------------------------------------------------------
(* Specification of the three converters: a call of convertToMidi,         *)
(* convertToAbc or convertToSuperCollider on an input, step by step, and   *)
(* then the same converter on jmonTone.normalize of that input.            *)

MaxConvertNotes == 2

ConvertRawNotes ==
    {[EmptyNote EXCEPT !.pitch = C4Name, !.duration = JNum(Num(1)),
                       !.time = JNum(Num(0))],
     [EmptyNote EXCEPT !.note = A4Name, !.duration = JStr(<<"4", "n">>),
                       !.time = JStr(<<"0", ":", "0", ":", "0">>)],
     [EmptyNote EXCEPT !.frequency = JNum(Num(440)),
                       !.duration = JNum(Num(1)), !.time = JNum(Num(0))],
     [EmptyNote EXCEPT !.volume = JNum(Num(100))]}

ConvertNoteLists ==
    UNION {[1..n -> ConvertRawNotes] : n \in 0..MaxConvertNotes}

ConvertCanonicalInputs ==
    {[GoodComposition EXCEPT !.format = f, !.version = v, !.bpm = b,
                             !.sequences = sq] :
         f \in {FORMAT_IDENTIFIER, "", "jmon"},
         v \in {VERSION, ""},
         b \in {JNum(Num(120)), JUndefined},
         sq \in {JArr(<<GoodSequence>>),
                 JArr(<<GoodSequence, BassSequence>>),
                 JArr(<<>>),
                 JUndefined,
                 JArr(<<[GoodSequence EXCEPT !.notes = JUndefined]>>),
                 JArr(<<[GoodSequence EXCEPT !.notes =
                     JArr(<<[GoodNote EXCEPT !.duration = JUndefined]>>)]>>)}}

ConvertInputs == NonCanonicalOver(ConvertNoteLists) \cup ConvertCanonicalInputs

InitConvert ==
    /\ OutputIdle
    /\ CallIdle
    /\ pc = "start"
    /\ converter \in {"midi", "abc", "sc"}
    /\ rawInput \in ConvertInputs
    /\ composition = rawInput
    /\ validation = NoValidation
    /\ normalized = EmptyObject
    /\ normalizedTwice = EmptyObject
    /\ ConvertFresh
    /\ TimeIdle
    /\ TempoIdle

\* convertToAbc: if (!jmonTone.validate(composition).success) throw
AbcValidate ==
    /\ pc = "start"
    /\ converter = "abc"
    /\ validation' = Validate(composition)
    /\ pc' = IF ValidationPasses(composition) THEN "abc:header"
             ELSE "threw"
    /\ UNCHANGED <<composition, convertVars, timeVars, tempoVars,
                   normalizeVars, outputVars, callVars>>

\* abc += this.generateAbcHeader(composition)
AbcHeader ==
    /\ pc = "abc:header"
    /\ stages' = Append(stages, "header")
    /\ abc' = abc \o GenerateAbcHeader(composition)
    /\ pc' = IF Len(composition.sequences.a) > 1 THEN "abc:voices"
             ELSE IF Len(composition.sequences.a) > 0 THEN "abc:body"
             ELSE "returned"
    /\ UNCHANGED <<converter, normalizedComposition, midi, midiFile, run,
                   firstRun, timeVars, tempoVars, validateVars,
                   normalizeVars, sc, callVars>>

\* the V: declarations and the %%score line of several sequences
AbcVoices ==
    /\ pc = "abc:voices"
    /\ stages' = stages \o [k \in 1..Len(composition.sequences.a) |-> "voice"]
                        \o <<"score">>
    /\ abc' = abc \o [k \in 1..Len(composition.sequences.a) |->
                         VoiceLine(composition.sequences.a[k], k)]
                  \o <<ScoreLine(composition)>>
    /\ pc' = "abc:body"
    /\ UNCHANGED <<converter, normalizedComposition, midi, midiFile, run,
                   firstRun, timeVars, tempoVars, validateVars,
                   normalizeVars, sc, callVars>>

\* generateMultiVoiceAbc or generateSingleVoiceAbc; return abc
AbcBody ==
    /\ pc = "abc:body"
    /\ stages' = Append(stages, IF Len(composition.sequences.a) > 1
                                THEN "multiVoice" ELSE "singleVoice")
    /\ abc' = abc \o (IF Len(composition.sequences.a) > 1
                      THEN GenerateMultiVoiceAbc(composition)
                      ELSE <<GenerateSingleVoiceAbc(
                                 composition.sequences.a[1], composition)>>)
    /\ composition' = AfterSortingNotes(composition)
    /\ pc' = "returned"
    /\ UNCHANGED <<converter, normalizedComposition, midi, midiFile, run,
                   firstRun, timeVars, tempoVars, validation,
                   normalizeVars, sc, callVars>>

---------------------------------------------------------------------------
(* JmonToSuperCollider: the generators of the script's sections.  The      *)
(* script is kept as the sequence of its blocks; a block records the       *)
(* section it belongs to, what it is, the identifier it defines and the    *)
(* signal expression or instrument it names.                               *)

ScBlock(section, kind, name, body) ==
    [section |-> section, kind |-> kind, name |-> name, body |-> body,
     freq |-> <<>>, dur |-> <<>>, amp |-> <<>>]

synthTypes ==
    {"Synth", "PolySynth", "MonoSynth", "AMSynth", "FMSynth", "DuoSynth",
     "PluckSynth", "NoiseSynth", "Sampler"}

effectTypes ==
    {"Filter", "AutoFilter", "Reverb", "FeedbackDelay", "PingPongDelay",
     "Delay", "Chorus", "Phaser", "Tremolo", "AutoWah", "Distortion",
     "Chebyshev", "BitCrusher", "Compressor", "Limiter", "Gate"}

IsSynthNode(type) == type \in synthTypes

IsEffectNode(type) == type \in effectTypes

\* name.replace(/[^a-zA-Z0-9_]/g, '_').replace(/^[0-9]/, '_$&') on the
\* identifiers the enumerated graphs use
SanitizeName(name) ==
    CASE name = "lead-synth" -> "lead_synth"
      [] name = "2nd" -> "_2nd"
      [] OTHER -> name

\* generateSynthesisCode: the oscillator of a type, options without an
\* oscillator, modulation, noise or filter entry
GenerateSynthesisCode(type) ==
    CASE type = "Synth" -> "SinOsc"
      [] type = "AMSynth" -> "SinOsc * SinOsc"
      [] type = "FMSynth" -> "SinOsc(freq + SinOsc)"
      [] type = "PluckSynth" -> "Pluck"
      [] type = "NoiseSynth" -> "WhiteNoise"
      [] type = "Sampler" -> "SinOsc"
      [] OTHER -> "SinOsc"

GenerateDefaultSynthDef ==
    ScBlock("synthDefs", "SynthDef", "defaultSynth", "SinOsc")

GenerateSynthDefFromNode(node) ==
    ScBlock("synthDefs", "SynthDef", SanitizeName(node.id),
            GenerateSynthesisCode(node.type))

\* the nodes that are neither an effect nor the Destination
DefinableNodes(c) ==
    LET keep(node) == ~IsEffectNode(node.type) /\ node.type # "Destination"
    IN  SelectSeq(c.audioGraph.a, keep)

\* composition.audioGraph.filter(node =>
\*     this.isSynthNode(node.type) && node.type !== 'Destination')
SynthNodes(c) ==
    LET keep(node) == IsSynthNode(node.type) /\ node.type # "Destination"
    IN  SelectSeq(c.audioGraph.a, keep)

GenerateSynthDefs(c) ==
    <<ScBlock("synthDefs", "comment", "", "")>>
    \o (IF ~Truthy(c.audioGraph) \/ Len(c.audioGraph.a) = 0
        THEN <<GenerateDefaultSynthDef>>
        ELSE [i \in 1..Len(SynthNodes(c)) |->
                  GenerateSynthDefFromNode(SynthNodes(c)[i])])

\* generateEffectCode: the processing expression of a type
GenerateEffectCode(type) ==
    CASE type = "Reverb" -> "FreeVerb"
      [] type = "Filter" -> "LPF"
      [] type = "Delay" -> "DelayL"
      [] type = "Distortion" -> "tanh"
      [] type = "Chorus" -> "DelayL(SinOsc)"
      [] type = "Compressor" -> "Compander"
      [] OTHER -> "not implemented"

GenerateEffectFromNode(node) ==
    ScBlock("effectDefs", "SynthDef", SanitizeName(node.id),
            GenerateEffectCode(node.type))

EffectNodes(c) ==
    LET keep(node) == IsEffectNode(node.type)
    IN  SelectSeq(c.audioGraph.a, keep)

GenerateEffectDefs(c) ==
    <<ScBlock("effectDefs", "comment", "", "")>>
    \o (IF ~Truthy(c.audioGraph) THEN <<>>
        ELSE [i \in 1..Len(EffectNodes(c)) |->
                  GenerateEffectFromNode(EffectNodes(c)[i])])

\* typeof t === 'string' ? jmonTone._parseTimeString(t, bpm) : t
ScTime(t, b) == IF t.t = "string" THEN ParseTimeString(t, b) ELSE NumOf(t)

\* [...sequence.notes].sort((a, b) => timeA - timeB): a stable sort, here
\* by insertion
RECURSIVE SortByScTime(_, _)
SortByScTime(notes, b) ==
    IF notes = <<>> THEN <<>>
    ELSE LET rest == SortByScTime(SubSeq(notes, 1, Len(notes) - 1), b)
             x == notes[Len(notes)]
             InsertedAfter(k) ==
                 SubSeq(rest, 1, k) \o <<x>> \o SubSeq(rest, k + 1, Len(rest))
         IN  InsertedAfter(Cardinality({i \in 1..Len(rest) :
                 RLe(ScTime(rest[i].time, b), ScTime(x.time, b))}))

\* secondsToBeats(seconds, bpm)
SecondsToBeats(s, b) == RDiv(RMul(s, b), Num(60))

\* an entry of the freq list: '\\rest', 'n.midicps' or '[n.midicps, ...]'
RestEntry == [rest |-> TRUE, chord |-> FALSE, midiNotes |-> <<>>]

FreqEntry(note) ==
    LET midiOf(n) == IF n.t = "number" THEN n.n ELSE NoteNameToMidiNote(n.s)
    IN  IF IsArray(note.note)
        THEN [rest |-> FALSE, chord |-> TRUE,
              midiNotes |-> [k \in 1..Len(note.note.a) |->
                                 midiOf(note.note.a[k])]]
        ELSE [rest |-> FALSE, chord |-> FALSE,
              midiNotes |-> <<midiOf(note.note)>>]

\* the three lists and lastTime before the first note
NoEvents == [notes |-> <<>>, durs |-> <<>>, amps |-> <<>>,
             lastTime |-> Num(0)]

\* a loop body that adds a rest before every note not earlier than lastTime
WithRestAlsoWithoutGap(acc, noteTime, b) ==
    IF RLe(acc.lastTime, noteTime)
    THEN [acc EXCEPT
             !.notes = Append(@, RestEntry),
             !.durs = Append(@, SecondsToBeats(RSub(noteTime, acc.lastTime),
                                               b)),
             !.amps = Append(@, Num(0))]
    ELSE acc

\* if (noteTime > lastTime) { notes.push('\\rest'); durs.push(...);
\* amps.push(0) }
WithRest(acc, noteTime, b) ==
    IF RLt(acc.lastTime, noteTime)
    THEN [acc EXCEPT
             !.notes = Append(@, RestEntry),
             !.durs = Append(@, SecondsToBeats(RSub(noteTime, acc.lastTime),
                                               b)),
             !.amps = Append(@, Num(0))]
    ELSE acc

\* the body of sortedNotes.forEach for one note
WithNote(acc, note, b) ==
    LET Pushed(rested, noteTime, duration) ==
            [notes |-> Append(rested.notes, FreqEntry(note)),
             durs |-> Append(rested.durs, SecondsToBeats(duration, b)),
             amps |-> Append(rested.amps,
                             IF Truthy(note.velocity) THEN note.velocity.n
                             ELSE DefaultVelocity),
             lastTime |-> RAdd(noteTime, duration)]
        Timed(noteTime, duration) ==
            Pushed(WithRest(acc, noteTime, b), noteTime, duration)
    IN  Timed(ScTime(note.time, b), ScTime(note.duration, b))

\* sortedNotes.forEach from note j on
RECURSIVE PatternEvents(_, _, _, _)
PatternEvents(sortedNotes, j, b, acc) ==
    IF j > Len(sortedNotes) THEN acc
    ELSE PatternEvents(sortedNotes, j + 1, b,
                       WithNote(acc, sortedNotes[j], b))

\* the Pbind of a sequence: its name, its \instrument and its three lists;
\* index from 0
GeneratePatternFromSequence(sequence, index, c) ==
    LET b == BpmOrDefault(c)
        Pbind(events) ==
            [ScBlock("patterns", "Pbind",
                     SanitizeName(StrOr(sequence.label,
                                        "pattern" \o ToString(index))),
                     IF sequence.synthRef # ""
                     THEN SanitizeName(sequence.synthRef)
                     ELSE "defaultSynth")
                EXCEPT !.freq = events.notes, !.dur = events.durs,
                       !.amp = events.amps]
    IN  Pbind(PatternEvents(SortByScTime(sequence.notes.a, b), 1, b,
                            NoEvents))

GeneratePatterns(c) ==
    <<ScBlock("patterns", "comment", "", "")>>
    \o (IF ~Truthy(c.sequences) THEN <<>>
        ELSE [i \in 1..Len(c.sequences.a) |->
                  GeneratePatternFromSequence(c.sequences.a[i], i - 1,
                                              c)])

\* the tempo statement and one play statement per sequence
GenerateMainExecution(c) ==
    <<ScBlock("mainExecution", "tempo", "", "")>>
    \o (IF ~Truthy(c.sequences) THEN <<>>
        ELSE [i \in 1..Len(c.sequences.a) |->
                  ScBlock("mainExecution", "play",
                          SanitizeName(StrOr(c.sequences.a[i].label,
                                             "pattern" \o ToString(i - 1))),
                          "")])
    \o <<ScBlock("mainExecution", "stop", "", "")>>

\* the last instant of the clock, in milliseconds after its first
MaxInstant == 1

\* the values new Date() can have when generateHeader runs
Instants == 0..MaxInstant

\* Date.prototype.toISOString
ToISOString(date) ==
    CASE date = 0 -> "1970-01-01T00:00:00.000Z"
      [] date = 1 -> "1970-01-01T00:00:00.001Z"
      [] date = 2 -> "1970-01-01T00:00:00.002Z"
      [] OTHER -> "1970-01-01T00:00:00.003Z"

\* the header comments: the title and the "Generated on" line
GenerateHeader(c, date) ==
    <<ScBlock("header", "comment",
              IF c.metadata.present THEN c.metadata.name ELSE "",
              ToISOString(date))>>

GenerateServerSetup == <<ScBlock("serverSetup", "boot", "", "")>>

\* convertToSuperCollider: if (!jmonTone.validate(composition).success) throw
ScValidate ==
    /\ pc = "start"
    /\ converter = "sc"
    /\ validation' = Validate(composition)
    /\ pc' = IF ValidationPasses(composition) THEN "sc:header" ELSE "threw"
    /\ UNCHANGED <<composition, convertVars, timeVars, tempoVars,
                   normalizeVars, outputVars, callVars>>

\* sc += this.generateHeader(composition)
ScHeader ==
    /\ pc = "sc:header"
    /\ stages' = Append(stages, "header")
    /\ \E date \in Instants : sc' = sc \o GenerateHeader(composition, date)
    /\ pc' = "sc:serverSetup"
    /\ UNCHANGED <<converter, normalizedComposition, midi, midiFile, run,
                   firstRun, timeVars, tempoVars, validateVars,
                   normalizeVars, abc, callVars>>

\* sc += this.generateServerSetup()
ScServerSetup ==
    /\ pc = "sc:serverSetup"
    /\ stages' = Append(stages, "serverSetup")
    /\ sc' = sc \o GenerateServerSetup
    /\ pc' = "sc:synthDefs"
    /\ UNCHANGED <<converter, normalizedComposition, midi, midiFile, run,
                   firstRun, timeVars, tempoVars, validateVars,
                   normalizeVars, abc, callVars>>

\* sc += this.generateSynthDefs(composition)
ScSynthDefs ==
    /\ pc = "sc:synthDefs"
    /\ stages' = Append(stages, "synthDefs")
    /\ sc' = sc \o GenerateSynthDefs(composition)
    /\ pc' = "sc:effectDefs"
    /\ UNCHANGED <<converter, normalizedComposition, midi, midiFile, run,
                   firstRun, timeVars, tempoVars, validateVars,
                   normalizeVars, abc, callVars>>

\* sc += this.generateEffectDefs(composition)
ScEffectDefs ==
    /\ pc = "sc:effectDefs"
    /\ stages' = Append(stages, "effectDefs")
    /\ sc' = sc \o GenerateEffectDefs(composition)
    /\ pc' = "sc:patterns"
    /\ UNCHANGED <<converter, normalizedComposition, midi, midiFile, run,
                   firstRun, timeVars, tempoVars, validateVars,
                   normalizeVars, abc, callVars>>

\* sc += this.generatePatterns(composition)
ScPatterns ==
    /\ pc = "sc:patterns"
    /\ stages' = Append(stages, "patterns")
    /\ sc' = sc \o GeneratePatterns(composition)
    /\ composition' = AfterSortingNotes(composition)
    /\ pc' = "sc:mainExecution"
    /\ UNCHANGED <<converter, normalizedComposition, midi, midiFile, run,
                   firstRun, timeVars, tempoVars, validation,
                   normalizeVars, abc, callVars>>

\* sc += this.generateMainExecution(composition); return sc
ScMainExecution ==
    /\ pc = "sc:mainExecution"
    /\ stages' = Append(stages, "mainExecution")
    /\ sc' = sc \o GenerateMainExecution(composition)
    /\ pc' = "returned"
    /\ UNCHANGED <<converter, normalizedComposition, midi, midiFile, run,
                   firstRun, timeVars, tempoVars, validateVars,
                   normalizeVars, abc, callVars>>

\* the composition the encoder steps of the current call read
Encoded ==
    IF pc = "threw" THEN EmptyObject
    ELSE IF converter = "midi" THEN normalizedComposition
    ELSE composition

\* the caller normalizes the input itself and calls the same converter again
ConvertNormalized ==
    /\ pc \in {"returned", "threw"}
    /\ run = 1
    /\ firstRun' = [outcome |-> pc, stages |-> stages, midi |-> midi,
                    encoded |-> Encoded]
    /\ normalized' = Normalize(rawInput)
    /\ composition' = Normalize(rawInput)
    /\ validation' = NoValidation
    /\ normalizedComposition' = EmptyObject
    /\ stages' = <<>>
    /\ midi' = EmptyMidi
    /\ run' = 2
    /\ pc' = "start"
    /\ abc' = <<>>
    /\ sc' = <<>>
    /\ UNCHANGED <<converter, midiFile, rawInput, normalizedTwice, timeVars,
                   tempoVars, callVars>>

NextConvert ==
    \/ MidiNormalize
    \/ MidiValidate
    \/ MidiHeader
    \/ MidiSequences
    \/ AbcValidate
    \/ AbcHeader
    \/ AbcVoices
    \/ AbcBody
    \/ ScValidate
    \/ ScHeader
    \/ ScServerSetup
    \/ ScSynthDefs
    \/ ScEffectDefs
    \/ ScPatterns
    \/ ScMainExecution
    \/ ConvertNormalized

SpecConvert == InitConvert /\ [][NextConvert]_vars

\* the converter's validation call has returned success = false
ValidationFailed == ~validation.success /\ validation.errors # <<>>

RecognizedNonCanonical(x) ==
    /\ x.format # FORMAT_IDENTIFIER
    /\ Validate(Normalize(x)).success

\* C4 as stated: on a recognized non-canonical input each converter
\* succeeds and gives the result it gives on jmonTone.normalize of the input.
C4_ConvertersAcceptNonCanonical ==
    (run = 2 /\ pc \in {"returned", "threw"}
        /\ RecognizedNonCanonical(rawInput)) =>
        /\ firstRun.outcome = "returned"
        /\ pc = "returned"
        /\ firstRun.stages = stages
        /\ firstRun.midi = midi
        /\ firstRun.encoded = Encoded

---------------------------------------------------------------------------
(* The tempo meta-event of the first track chunk (SpecMidi). *)

\* offset (from 0) of the first event of the first track chunk
FirstEventOffset == HeaderLength + 8

\* C11 as stated: for every bpm > 0 that validate accepts, the tempo
\* meta-event written by createMidiFromTracks is 00 FF 51 03 followed by 3
\* bytes whose big-endian value is round(60,000,000 / bpm).
C11_TempoEventIsMicrosecondsPerQuarter ==
    (pc = "exported" /\ converter = "midi" /\ validation.success
        /\ composition.bpm.t = "number" /\ RLt(Num(0), composition.bpm.n)) =>
        /\ SubSeq(midiFile, FirstEventOffset + 1, FirstEventOffset + 4)
               = <<0, 255, 81, 3>>
        /\ BigEndian(midiFile, FirstEventOffset + 5, FirstEventOffset + 7)
               = Round(RDiv(Num(MicrosecondsPerMinute), composition.bpm.n))

\* the same for the tempos whose microseconds per quarter fit 24 bits; it
\* holds, so the only failures of C11 are the overflowing tempos
TempoEventWithinThreeBytes ==
    (pc = "exported" /\ converter = "midi"
        /\ Round(RDiv(Num(MicrosecondsPerMinute), composition.bpm.n))
               < Pow2(24)) =>
        C11_TempoEventIsMicrosecondsPerQuarter

---------------------------------------------------------------------------
(* Specification of the notation encoder: JmonToAbc.convertToAbc on a      *)
(* canonical composition, step by step.                                    *)

MaxAbcNotes == 2

AbcBpms == {Num(120), Num(90), Num(50)}

\* duration / beat length of the notes that are tried: the entries of the
\* table of durationToAbcNotation and ratios beside them
AbcRatios ==
    {Num(4), Num(2), Num(1), <<1, 2>>, <<1, 4>>, <<1, 8>>, <<3, 2>>,
     <<3, 4>>, Num(3), <<2, 3>>, <<1, 3>>,
     <<5, 8>>, Num(5), <<21, 20>>, <<5, 2>>}

E4Name == JStr(<<"E", "4">>)
G4Name == JStr(<<"G", "4">>)

AbcChords ==
    {JArr(<<C4Name, E4Name, G4Name>>),
     JArr(<<JNum(Num(60)), JStr(<<"F", "#", "3">>),
            JStr(<<"B", "b", "5">>)>>),
     JArr(<<JStr(<<"G", "2">>), JStr(<<"H", "2">>), JNum(Num(0)),
            JStr(<<"C", "6">>)>>),
     JArr(<<A4Name>>)}

\* notes of a composition at tempo b
AbcNotesAt(b) ==
    {[GoodNote EXCEPT !.duration = JNum(RMul(r, RDiv(Num(60), b)))] :
         r \in AbcRatios}
    \cup {[GoodNote EXCEPT !.note = ch, !.duration = d,
                           !.time = JNum(Num(1))] :
              ch \in AbcChords,
              d \in {JStr(<<"4", "n">>), JStr(<<"8", "n">>),
                     JNum(RDiv(Num(60), b))}}
    \cup {[GoodNote EXCEPT !.note = JNum(Num(61)),
                           !.time = JStr(<<"0", ":", "2", ":", "0">>)],
          [GoodNote EXCEPT !.note = JStr(<<"C", "-", "1">>),
                           !.duration = JStr(<<"2", "n">>)]}

\* the notes that are combined into longer lists
AbcFewNotes ==
    {GoodNote,
     [GoodNote EXCEPT !.note = JArr(<<C4Name, E4Name, G4Name>>),
                      !.time = JNum(Num(1)), !.duration = JNum(<<1, 4>>)],
     [GoodNote EXCEPT !.note = JNum(Num(61)), !.time = JNum(<<1, 2>>),
                      !.duration = JStr(<<"2", "n">>)],
     [GoodNote EXCEPT !.note = JArr(<<A4Name, JNum(Num(72))>>),
                      !.duration = JStr(<<"4", "n">>)]}

\* every tried note alone, and the lists of a few notes
AbcNoteListsAt(b) ==
    {<<n>> : n \in AbcNotesAt(b)}
    \cup UNION {[1..n -> AbcFewNotes] : n \in 0..MaxAbcNotes}

AbcMetadata ==
    {[present |-> TRUE, name |-> nm, author |-> au, description |-> de] :
         nm \in {"", "Song"}, au \in {"", "Anon"}, de \in {"", "A tune"}}
    \cup {NoMetadata}

AbcInputs ==
    UNION {{[GoodComposition EXCEPT !.bpm = JNum(b),
                 !.sequences = JArr(<<[GoodSequence EXCEPT
                                          !.notes = JArr(ns)]>>)] :
               ns \in AbcNoteListsAt(b)} : b \in AbcBpms}
    \cup {[GoodComposition EXCEPT !.metadata = md, !.timeSignature = ts,
                                  !.keySignature = ks, !.sequences = sq] :
              md \in AbcMetadata, ts \in {"", "3/4"},
              ks \in {<<>>, <<"F", "#", "m">>, <<"C", "b", "m">>},
              sq \in {JArr(<<>>), JArr(<<GoodSequence>>),
                      JArr(<<GoodSequence, BassSequence>>),
                      JArr(<<GoodSequence,
                             [BassSequence EXCEPT !.label = ""]>>)}}
    \cup {[GoodComposition EXCEPT !.bpm = JUndefined],
          [GoodComposition EXCEPT !.keySignature = <<"H">>]}

InitAbc ==
    /\ OutputIdle
    /\ CallIdle
    /\ pc = "start"
    /\ converter = "abc"
    /\ composition \in AbcInputs
    /\ validation = NoValidation
    /\ ConvertFresh
    /\ TimeIdle
    /\ TempoIdle
    /\ NormalizeIdle

NextAbc ==
    \/ AbcValidate
    \/ AbcHeader
    \/ AbcVoices
    \/ AbcBody

SpecAbc == InitAbc /\ [][NextAbc]_vars

(* Reading the text back. *)

\* the fields of the lines that stand before the first line of music
RECURSIVE HeaderFields(_)
HeaderFields(lines) ==
    IF lines = <<>> \/ Head(lines).field = "" THEN <<>>
    ELSE <<Head(lines).field>> \o HeaderFields(Tail(lines))

\* the header fields in their fixed order for composition c
ExpectedHeaderFields(c) ==
    <<"X", "T">>
    \o (IF c.metadata.author # "" THEN <<"C">> ELSE <<>>)
    \o (IF c.metadata.description # "" THEN <<"N">> ELSE <<>>)
    \o <<"S", "M", "L", "Q", "K">>

AbcReturned == pc = "returned" /\ converter = "abc"

\* C12 as stated: the header lines are X:, T:, C: (author present), N:
\* (description present), S:, M:, L:, Q:, K: in this order and K: is the
\* last header field line, for single-voice and multi-voice compositions.
C12_KeyLineLastInHeader ==
    AbcReturned =>
        /\ HeaderFields(abc) = ExpectedHeaderFields(composition)
        /\ HeaderFields(abc)[Len(HeaderFields(abc))] = "K"

\* the same for compositions of at most one sequence; it holds, and for
\* several sequences the lines generateAbcHeader writes are in this order
SingleVoiceKeyLineLast ==
    AbcReturned =>
        /\ SubSeq(HeaderFields(abc), 1,
                  Len(ExpectedHeaderFields(composition)))
               = ExpectedHeaderFields(composition)
        /\ Len(composition.sequences.a) <= 1 => C12_KeyLineLastInHeader

\* a composition of one sequence has been encoded: its line of music is
\* the last line
OneVoiceReturned ==
    /\ AbcReturned
    /\ Len(composition.sequences.a) = 1
    /\ Len(composition.sequences.a[1].notes.a) > 0

\* the notes of the one sequence in the order they are written
WrittenNotes ==
    SortByTime(composition.sequences.a[1].notes.a, BpmOrDefault(composition))

\* the pieces of the line of music between blanks; the last is the bar "|]"
MusicTokens == Split(abc[Len(abc)].text, " ")

PitchLetters ==
    {"A", "B", "C", "D", "E", "F", "G", "a", "b", "c", "d", "e", "f", "g"}

\* how often a character of the set S stands in cs
CountIn(cs, S) == Cardinality({k \in 1..Len(cs) : cs[k] \in S})

\* position of the first "]" in cs, 0 when there is none
ClosingAt(cs) ==
    IF \E k \in 1..Len(cs) : cs[k] = "]"
    THEN CHOOSE k \in 1..Len(cs) :
             cs[k] = "]" /\ \A j \in 1..(k - 1) : cs[j] # "]"
    ELSE 0

\* the tokens a pitch text is made of: one per pitch letter, with the
\* accidental before it and the octave marks after it
RECURSIVE PitchTokens(_)
PitchTokens(cs) ==
    IF cs = <<>> THEN <<>>
    ELSE LET at == IF cs[1] \in {"^", "_"} THEN 2 ELSE 1
             RECURSIVE MarksEnd(_)
             MarksEnd(k) ==
                 IF k < Len(cs) /\ cs[k + 1] \in {",", "'"}
                 THEN MarksEnd(k + 1) ELSE k
             to == MarksEnd(at)
         IN  IF at > Len(cs) THEN <<cs>>
             ELSE <<SubSeq(cs, 1, to)>>
                  \o PitchTokens(SubSeq(cs, to + 1, Len(cs)))

\* C13: a note whose note field is an array of n pitches is written as one
\* bracketed group: one '[', the n pitch tokens in array order, one ']',
\* and after it a single duration suffix for the whole chord.
C13_ChordIsOneBracketedGroup ==
    OneVoiceReturned =>
        /\ Len(MusicTokens) = Len(WrittenNotes) + 1
        /\ \A k \in 1..Len(WrittenNotes) :
             IsArray(WrittenNotes[k].note) =>
                 LET tok == MusicTokens[k]
                     n == Len(WrittenNotes[k].note.a)
                     close == ClosingAt(tok)
                     inner == SubSeq(tok, 2, close - 1)
                     suffix == SubSeq(tok, close + 1, Len(tok))
                 IN  /\ tok[1] = "["
                     /\ CountIn(tok, {"["}) = 1
                     /\ CountIn(tok, {"]"}) = 1
                     /\ CountIn(inner, PitchLetters) = n
                     /\ PitchTokens(inner)
                            = [i \in 1..n |-> ConvertSingleNoteToAbc(
                                                  WrittenNotes[k].note.a[i])]
                     /\ \A i \in 1..Len(suffix) :
                            suffix[i] \in Digits \cup {"/"}
                     /\ suffix = AbcDuration(WrittenNotes[k], composition)

C13_Witness ==
    /\ OneVoiceReturned
    /\ Len(WrittenNotes) = 2
    /\ IsArray(WrittenNotes[2].note)
    /\ Len(WrittenNotes[2].note.a) = 3
    /\ MusicTokens[2] = <<"[", "C", "E", "G", "]", "/", "2">>

\* is the duration of the note one quarter note at the tempo of c
QuarterNote(note, c) ==
    \/ note.duration = JStr(<<"4", "n">>)
    \/ /\ note.duration.t = "number"
       /\ note.duration.n = RDiv(Num(60), BpmOrDefault(c))

\* C14: a note whose duration is one quarter note at the composition's bpm
\* (the token "4n" or the number 60/bpm) is written with an empty duration
\* suffix: its text is its pitches and nothing more.
C14_QuarterNoteHasEmptySuffix ==
    OneVoiceReturned =>
        \A k \in 1..Len(WrittenNotes) :
            QuarterNote(WrittenNotes[k], composition) =>
                /\ k < Len(MusicTokens)
                /\ MusicTokens[k] = AbcPitches(WrittenNotes[k])
                /\ MusicTokens[k][Len(MusicTokens[k])]
                       \notin Digits \cup {"/"}

C14_Witness ==
    /\ OneVoiceReturned
    /\ composition.bpm = JNum(Num(90))
    /\ Len(WrittenNotes) = 1
    /\ WrittenNotes[1].duration = JNum(<<2, 3>>)
    /\ MusicTokens[1] = <<"C">>

\* the lookup table of the duration suffix, by the ratio of the duration to
\* one quarter note
RefSuffix(r) ==
    CASE r = Num(4) -> <<"4">>
      [] r = Num(2) -> <<"2">>
      [] r = Num(1) -> <<>>
      [] r = <<1, 2>> -> <<"/", "2">>
      [] r = <<1, 4>> -> <<"/", "4">>
      [] r = <<1, 8>> -> <<"/", "8">>
      [] r = <<3, 2>> -> <<"3", "/", "2">>
      [] r = <<3, 4>> -> <<"3", "/", "4">>
      [] r = Num(3) -> <<"3">>
      [] r = <<2, 3>> -> <<"2", "/", "3">>
      [] r = <<1, 3>> -> <<"/", "3">>
      [] OTHER -> IntChars(Round(RMul(r, Num(8)))) \o <<"/", "8">>

RefTableRatios ==
    {Num(4), Num(2), Num(1), <<1, 2>>, <<1, 4>>, <<1, 8>>, <<3, 2>>,
     <<3, 4>>, Num(3), <<2, 3>>, <<1, 3>>}

\* the ratio of a numeric duration to one quarter note of composition c
RatioOf(note, c) ==
    RDiv(note.duration.n, RDiv(Num(60), BpmOrDefault(c)))

\* the suffix written after the pitches of note k
WrittenSuffix(k) ==
    SubSeq(MusicTokens[k], Len(AbcPitches(WrittenNotes[k])) + 1,
           Len(MusicTokens[k]))

\* C15 as stated: the suffix of a duration whose ratio to the quarter note
\* is an entry of the table is the entry's suffix.
C15_SuffixFollowsLookupTable ==
    OneVoiceReturned =>
        \A k \in 1..Len(WrittenNotes) :
            (WrittenNotes[k].duration.t = "number"
                /\ RatioOf(WrittenNotes[k], composition) \in RefTableRatios) =>
                WrittenSuffix(k)
                    = RefSuffix(RatioOf(WrittenNotes[k], composition))

\* the entries of the table that no earlier entry's tolerance of 0.1
\* covers; for them the table is followed
SuffixFollowsReachableEntries ==
    OneVoiceReturned =>
        \A k \in 1..Len(WrittenNotes) :
            (WrittenNotes[k].duration.t = "number"
                /\ RatioOf(WrittenNotes[k], composition)
                       \in RefTableRatios \ {<<2, 3>>, <<1, 3>>}) =>
                WrittenSuffix(k)
                    = RefSuffix(RatioOf(WrittenNotes[k], composition))

---------------------------------------------------------------------------
(* Specification of the script encoder: one call of                        *)
(* JmonToSuperCollider.convertToSuperCollider on a composition with an     *)
(* audio graph and connections.                                            *)

\* most nodes of an enumerated audio graph
MaxScNodes == 2

ScNodes ==
    {AudioGraphNode("synth", "Synth", TRUE),
     AudioGraphNode("lead-synth", "AMSynth", TRUE),
     AudioGraphNode("reverb", "Reverb", TRUE),
     AudioGraphNode("master", "Destination", TRUE),
     AudioGraphNode("grain", "Granular", TRUE),
     AudioGraphNode("2nd", "Vibrato", TRUE)}

ScGraphs ==
    {JUndefined}
    \cup {JArr(ns) : ns \in UNION {[1..n -> ScNodes] : n \in 0..MaxScNodes}}

ScConnections ==
    {JUndefined,
     DefaultConnections,
     JArr(<<Connection(<<"synth", "reverb">>),
            Connection(<<"reverb", "master">>)>>),
     JArr(<<Connection(<<"synth", "nowhere">>),
            Connection(<<"synth", "master">>)>>)}

ScSequences ==
    {JArr(<<GoodSequence>>),
     JArr(<<[GoodSequence EXCEPT !.label = "2nd", !.synthRef = "grain"],
            BassSequence>>),
     JArr(<<[GoodSequence EXCEPT !.synthRef = "", !.synth = "Synth"]>>),
     JArr(<<[GoodSequence EXCEPT !.synthRef = "reverb"]>>)}

\* most notes of an enumerated pattern
MaxScNotes == 2

ScNotes ==
    {[GoodNote EXCEPT !.time = JNum(Num(0)), !.duration = JNum(<<1, 2>>)],
     [GoodNote EXCEPT !.time = JNum(<<1, 2>>), !.duration = JNum(<<1, 2>>),
                      !.note = JNum(Num(64))],
     [GoodNote EXCEPT !.time = JNum(Num(2)),
                      !.note = JArr(<<C4Name, JNum(Num(64))>>)],
     [GoodNote EXCEPT !.time = JStr(<<"0", ":", "1", ":", "0">>),
                      !.duration = JNum(Num(1)), !.note = A4Name,
                      !.velocity = JNum(Num(0))],
     [GoodNote EXCEPT !.time = JNum(<<1, 4>>), !.duration = JNum(Num(2)),
                      !.velocity = JNum(<<1, 2>>)]}

ScNoteLists == UNION {[1..n -> ScNotes] : n \in 0..MaxScNotes}

ScPatternInputs ==
    {[GoodComposition EXCEPT
         !.bpm = JNum(b),
         !.sequences = JArr(<<[GoodSequence EXCEPT !.notes = JArr(ns)]>>)] :
         b \in {Num(120), Num(90)}, ns \in ScNoteLists}

ScInputs ==
    {[GoodComposition EXCEPT !.audioGraph = ag, !.connections = cn,
                             !.sequences = sq] :
         ag \in ScGraphs, cn \in ScConnections, sq \in ScSequences}
    \cup ScPatternInputs

InitSc ==
    /\ OutputIdle
    /\ CallIdle
    /\ pc = "start"
    /\ converter = "sc"
    /\ rawInput \in ScInputs
    /\ composition = rawInput
    /\ validation = NoValidation
    /\ normalized = EmptyObject
    /\ normalizedTwice = EmptyObject
    /\ ConvertFresh
    /\ TimeIdle
    /\ TempoIdle

NextSc ==
    \/ ScValidate
    \/ ScHeader
    \/ ScServerSetup
    \/ ScSynthDefs
    \/ ScEffectDefs
    \/ ScPatterns
    \/ ScMainExecution

SpecSc == InitSc /\ [][NextSc]_vars

\* convertToSuperCollider has returned its script
ScReturned == converter = "sc" /\ pc = "returned"

\* the blocks of one section of the script, in order
SectionBlocks(section) ==
    LET inSection(block) == block.section = section
    IN  SelectSeq(sc, inSection)

\* the blocks of a kind within a section, in order
BlocksOfKind(section, kind) ==
    LET ofKind(block) == block.section = section /\ block.kind = kind
    IN  SelectSeq(sc, ofKind)

\* C16: the returned script has a connection section with one routing
\* statement per entry of composition.connections, its source and target
\* those of the entry, an entry with an unknown target included
C16_ConnectionsAreRouted ==
    (ScReturned /\ IsArray(composition.connections)) =>
        LET routes == SectionBlocks("connections")
        IN  /\ Len(routes) = Len(composition.connections.a)
            /\ \A i \in 1..Len(routes) :
                   /\ routes[i].name =
                          SanitizeName(composition.connections.a[i].ends[1])
                   /\ routes[i].body =
                          SanitizeName(composition.connections.a[i].ends[2])

\* every block of a returned script belongs to one of the six sections the
\* converter appends, and the script ends with the main execution block
ScriptHasSixSections ==
    ScReturned =>
        /\ \A i \in 1..Len(sc) :
               sc[i].section \in {"header", "serverSetup", "synthDefs",
                                  "effectDefs", "patterns", "mainExecution"}
        /\ sc[Len(sc)].section = "mainExecution"

\* C17: for a non-empty audio graph the returned script holds exactly one
\* SynthDef block per node that is neither the Destination nor an effect,
\* in graph order, a node of an unrecognized type included with the
\* single-oscillator definition
C17_OneSynthDefPerDefinableNode ==
    (ScReturned /\ IsArray(composition.audioGraph)
       /\ Len(composition.audioGraph.a) > 0) =>
        LET synthDefs == BlocksOfKind("synthDefs", "SynthDef")
            nodes     == DefinableNodes(composition)
        IN  /\ Len(synthDefs) = Len(nodes)
            /\ \A i \in 1..Len(nodes) :
                   /\ synthDefs[i].name = SanitizeName(nodes[i].id)
                   /\ ~IsSynthNode(nodes[i].type) =>
                          synthDefs[i].body = "SinOsc"

\* the SynthDef blocks of a returned script are those of the nodes of a
\* recognized synthesizer type, one each and in graph order
OneSynthDefPerRecognizedSynth ==
    (ScReturned /\ IsArray(composition.audioGraph)
       /\ Len(composition.audioGraph.a) > 0) =>
        LET synthDefs == BlocksOfKind("synthDefs", "SynthDef")
            nodes     == SynthNodes(composition)
        IN  /\ Len(synthDefs) = Len(nodes)
            /\ \A i \in 1..Len(nodes) :
                   synthDefs[i].name = SanitizeName(nodes[i].id)

---------------------------------------------------------------------------
(* The velocities normalize writes.                                        *)

\* a number within [0, 1]
InUnitRange(v) ==
    v.t = "number" /\ RLe(Num(0), v.n) /\ RLe(v.n, Num(1))

\* normalize has returned the canonical form of a non-canonical input
NormalizedNonCanonical ==
    pc \in {"normalized", "done"} /\ ~AlreadyCanonical(rawInput)

\* C18: after normalize of a non-canonical input every note's velocity is
\* within [0, 1]: a velocity or volume above 1 and at most 127 was divided
\* by 127, a value within [0, 1] was kept, and a note with neither field
\* has 0.8
C18_NormalizedVelocityInUnitRange ==
    NormalizedNonCanonical =>
        \A sq \in SequencesOf(normalized) :
            \A note \in NotesOf(sq) : InUnitRange(note.velocity)

\* for a flat array of notes: a note given with a velocity from 0 to 127,
\* or with neither velocity nor volume, has a velocity within [0, 1], and a
\* note given with a volume only has that volume as its velocity
VelocityFieldScaledVolumeCopied ==
    (NormalizedNonCanonical /\ rawInput.isArray) =>
        \A i \in 1..Len(rawInput.items) :
            LET given == rawInput.items[i]
                note  == normalized.sequences.a[1].notes.a[i]
            IN  IF IsDefined(given.velocity) \/ ~IsDefined(given.volume)
                THEN InUnitRange(note.velocity)
                ELSE note.velocity = given.volume

---------------------------------------------------------------------------
(* Specification of the builder: jmonTone.createBasicComposition followed  *)
(* by calls of addAudioGraphNode, addConnection and addSequence on the     *)
(* composition it returned.                                                *)

\* most builder calls after createBasicComposition
MaxBuilderCalls == 3

\* the options object of createBasicComposition, no field given
NoOptions == [bpm |-> JUndefined, keySignature |-> <<>>, name |-> "",
              author |-> ""]

BuilderOptions ==
    {NoOptions,
     [NoOptions EXCEPT !.name = "My Composition", !.bpm = JNum(Num(120)),
                       !.keySignature = <<"C">>],
     [NoOptions EXCEPT !.bpm = JNum(Num(90)), !.author = "Anon",
                       !.keySignature = <<"G">>]}

\* the options without audioGraph, connections, sequences or tempoMap, so
\* each of these gets its default
CreateBasicCompositionFrom(options) ==
    [EmptyObject EXCEPT
        !.format = FORMAT_IDENTIFIER,
        !.version = VERSION,
        !.bpm = ValOr(options.bpm, JNum(Num(120))),
        !.keySignature = CharsOr(options.keySignature, <<"C">>),
        !.timeSignature = "4/4",
        !.metadata = [present |-> TRUE,
                      name |-> StrOr(options.name, "Untitled Composition"),
                      author |-> StrOr(options.author, "Unknown"),
                      description |-> ""],
        !.audioGraph = JArr(<<AudioGraphNode("master", "Destination", TRUE)>>),
        !.connections = JArr(<<>>),
        !.sequences = JArr(<<>>),
        !.tempoMap = JArr(<<>>)]

\* nodeOptions: id and type, "" where the field is not given; neither
\* target nor presetRef is given
NodeOptions ==
    {[id |-> "", type |-> ""],
     [id |-> "synth", type |-> "Synth"],
     [id |-> "master", type |-> "Destination"],
     [id |-> "node_2", type |-> "Reverb"]}

\* composition.audioGraph.push(node)
WithAudioGraphNode(c, nodeOptions) ==
    [c EXCEPT !.audioGraph =
        JArr(Append(c.audioGraph.a,
             AudioGraphNode(
                 StrOr(nodeOptions.id,
                       "node_" \o ToString(Len(c.audioGraph.a))),
                 StrOr(nodeOptions.type, "Synth"),
                 TRUE)))]

\* the source and target arguments of addConnection
ConnectionEnds ==
    {<<"synth", "master">>, <<"node_1", "node_2">>, <<"ghost", "master">>,
     <<"synth", "nowhere">>}

\* composition.connections.push([source, target])
WithConnection(c, source, target) ==
    [c EXCEPT !.connections =
        JArr(Append(c.connections.a, Connection(<<source, target>>)))]

\* sequenceOptions: label and synthRef, "" where not given; notes given
SequenceOptions ==
    {[label |-> "Lead Melody", synthRef |-> "synth"],
     [label |-> "", synthRef |-> ""]}

\* composition.sequences.push(sequence)
WithSequence(c, sequenceOptions) ==
    [c EXCEPT !.sequences =
        JArr(Append(c.sequences.a,
             [EmptySequence EXCEPT
                 !.label = StrOr(sequenceOptions.label,
                                 "Sequence "
                                 \o ToString(Len(c.sequences.a) + 1)),
                 !.notes = JArr(<<GoodNote>>),
                 !.synthRef = sequenceOptions.synthRef,
                 !.synth = IF sequenceOptions.synthRef # "" THEN ""
                           ELSE "Synth"]))]

\* the builder calls made on the composition since it was created
BuilderCalls(c) ==
    Len(c.audioGraph.a) - 1 + Len(c.connections.a) + Len(c.sequences.a)

InitBuilder ==
    /\ OutputIdle
    /\ CallIdle
    /\ pc = "start"
    /\ ValidateIdle
    /\ TimeIdle
    /\ TempoIdle
    /\ NormalizeIdle
    /\ ConvertIdle

BuilderUnchanged ==
    UNCHANGED <<validation, timeVars, tempoVars, normalizeVars, convertVars,
                outputVars, callVars>>

CreateBasicComposition ==
    /\ pc = "start"
    /\ \E options \in BuilderOptions :
           composition' = CreateBasicCompositionFrom(options)
    /\ pc' = "built"
    /\ BuilderUnchanged

AddAudioGraphNode ==
    /\ pc = "built"
    /\ BuilderCalls(composition) < MaxBuilderCalls
    /\ \E nodeOptions \in NodeOptions :
           composition' = WithAudioGraphNode(composition, nodeOptions)
    /\ pc' = "built"
    /\ BuilderUnchanged

AddConnection ==
    /\ pc = "built"
    /\ BuilderCalls(composition) < MaxBuilderCalls
    /\ \E ends \in ConnectionEnds :
           composition' = WithConnection(composition, ends[1], ends[2])
    /\ pc' = "built"
    /\ BuilderUnchanged

AddSequence ==
    /\ pc = "built"
    /\ BuilderCalls(composition) < MaxBuilderCalls
    /\ \E sequenceOptions \in SequenceOptions :
           composition' = WithSequence(composition, sequenceOptions)
    /\ pc' = "built"
    /\ BuilderUnchanged

NextBuilder ==
    \/ CreateBasicComposition
    \/ AddAudioGraphNode
    \/ AddConnection
    \/ AddSequence

SpecBuilder == InitBuilder /\ [][NextBuilder]_vars

\* C19: after any builder calls on a composition made by
\* createBasicComposition, the ids of the audioGraph nodes are pairwise
\* distinct
C19_NodeIdsPairwiseDistinct ==
    pc = "built" =>
        \A i, j \in 1..Len(composition.audioGraph.a) :
            i # j => composition.audioGraph.a[i].id
                     # composition.audioGraph.a[j].id

\* C20: after any builder calls, the source and the target of every
\* connection is the id of an audioGraph node or "master"
C20_ConnectionEndsExist ==
    pc = "built" =>
        \A connection \in ConnectionsOf(composition) :
            \A k \in 1..Len(connection.ends) :
                connection.ends[k] \in NodeIds(composition) \cup {"master"}

\* what the builder does keep: the composition it made stays valid for
\* jmonTone.validate once it has a sequence, and every connection is a pair
BuiltCompositionValidates ==
    (pc = "built" /\ Len(composition.sequences.a) > 0) =>
        /\ ValidationPasses(composition)
        /\ \A connection \in ConnectionsOf(composition) :
               Len(connection.ends) = 2

---------------------------------------------------------------------------
(* Specification of the variable-length encoder: one call of               *)
(* JmonToMidi.encodeVariableLength on an integer below 2^28.               *)

\* how far around each power of 128 the values are drawn
MaxVlqOffset == 8

VlqLimit == Pow2(28)

VlqValues ==
    {v \in {Pow2(7 * k) + d : k \in 0..4,
                              d \in (0 - MaxVlqOffset)..MaxVlqOffset} :
         v >= 0 /\ v < VlqLimit}
    \cup {300, 1000, 8192, 100000, 1000000, 134217728}

InitVlq ==
    /\ OutputIdle
    /\ pc = "call"
    /\ argument \in VlqValues
    /\ returned = NoCall
    /\ locals = NoCall
    /\ TimeIdle
    /\ TempoIdle
    /\ ValidateIdle
    /\ NormalizeIdle
    /\ ConvertIdle

CallEncodeVariableLength ==
    /\ pc = "call"
    /\ returned' = EncodeVariableLength(argument)
    /\ pc' = "done"
    /\ UNCHANGED <<argument, locals, timeVars, tempoVars, validateVars,
                   normalizeVars, convertVars, outputVars>>

NextVlq == CallEncodeVariableLength

SpecVlq == InitVlq /\ [][NextVlq]_vars

\* the value of 7-bit groups read most significant first
RECURSIVE DecodeVariableLength(_)
DecodeVariableLength(bytes) ==
    IF bytes = <<>> THEN 0
    ELSE 128 * DecodeVariableLength(SubSeq(bytes, 1, Len(bytes) - 1))
         + (bytes[Len(bytes)] % 128)

\* C24: for 0 <= v < 2^28 encodeVariableLength(v) is 1 to 4 bytes, bit 0x80
\* set on every byte but the last and clear on the last, no leading zero
\* group, and the 7-bit groups read most significant first give v
C24_VariableLengthQuantityCorrect ==
    pc = "done" =>
        /\ Len(returned) \in 1..4
        /\ \A k \in 1..Len(returned) : returned[k] \in 0..255
        /\ \A k \in 1..(Len(returned) - 1) : returned[k] >= 128
        /\ returned[Len(returned)] < 128
        /\ Len(returned) > 1 => returned[1] # 128
        /\ DecodeVariableLength(returned) = argument

\* C24 witness: a value of four 7-bit groups has been encoded
C24_Witness ==
    /\ pc = "done"
    /\ argument >= Pow2(21)
    /\ Len(returned) = 4

---------------------------------------------------------------------------
(* Fields that are present with the value 0.                               *)

\* the error messages of the validation result
ReportedErrors == {validation.errors[k] : k \in 1..Len(validation.errors)}

TempoChangesOf(c) ==
    IF IsArray(c.tempoMap)
    THEN {c.tempoMap.a[i] : i \in 1..Len(c.tempoMap.a)} ELSE {}

\* C28: validate reports no missing field for a field that is present with
\* the number 0: when every note has a note field, 0 included, there is no
\* "Missing required field: note" error, and when every tempoMap entry has
\* a time, 0 included, there is no "Missing time field" error
C28_ZeroIsNotMissing ==
    pc = "done" =>
        /\ (\A sq \in SequencesOf(composition) :
                \A note \in NotesOf(sq) : IsDefined(note.note))
               => "note" \notin ReportedErrors
        /\ (\A tempoChange \in TempoChangesOf(composition) :
                IsDefined(tempoChange.time))
               => "tempoMap time" \notin ReportedErrors

\* a field that is present with a value other than 0, "" or NaN is never
\* reported as missing
TruthyFieldIsNotMissing ==
    pc = "done" =>
        /\ (\A sq \in SequencesOf(composition) :
                \A note \in NotesOf(sq) : Truthy(note.note))
               => "note" \notin ReportedErrors
        /\ (\A tempoChange \in TempoChangesOf(composition) :
                Truthy(tempoChange.time))
               => "tempoMap time" \notin ReportedErrors

---------------------------------------------------------------------------
(* Specification of the pitch encoder: JmonToAbc.convertSingleNoteToAbc    *)
(* called on each of two pitches.                                          *)

\* how far apart the two MIDI pitches of a pair are at most
MaxPitchDistance == 24

MidiPitches == 0..127

PitchPairs ==
    {<<JNum(Num(pq[1])), JNum(Num(pq[2]))>> :
         pq \in {xy \in MidiPitches \X MidiPitches :
                    xy[2] > xy[1] /\ xy[2] <= xy[1] + MaxPitchDistance}}

NamePairs ==
    {<<JStr(<<"C", "3">>), JStr(<<"C", "4">>)>>,
     <<JStr(<<"B", "b", "5">>), JStr(<<"A", "#", "5">>)>>,
     <<JStr(<<"F", "#", "3">>), JStr(<<"F", "#", "4">>)>>,
     <<JStr(<<"C", "-", "1">>), JStr(<<"C", "0">>)>>,
     <<JStr(<<"G", "5">>), JStr(<<"G", "6">>)>>,
     <<JStr(<<"E", "4">>), JStr(<<"E", "b", "4">>)>>,
     <<JStr(<<"D", "2">>), JStr(<<"D", "3">>)>>}

InitPitch ==
    /\ OutputIdle
    /\ pc = "call"
    /\ argument \in PitchPairs \cup NamePairs
    /\ returned = NoCall
    /\ locals = NoCall
    /\ TimeIdle
    /\ TempoIdle
    /\ ValidateIdle
    /\ NormalizeIdle
    /\ ConvertIdle

CallConvertSingleNoteToAbc ==
    /\ pc = "call"
    /\ returned' = <<ConvertSingleNoteToAbc(argument[1]),
                     ConvertSingleNoteToAbc(argument[2])>>
    /\ pc' = "done"
    /\ UNCHANGED <<argument, locals, timeVars, tempoVars, validateVars,
                   normalizeVars, convertVars, outputVars>>

NextPitch == CallConvertSingleNoteToAbc

SpecPitch == InitPitch /\ [][NextPitch]_vars

\* C30: two different pitches (MIDI numbers in 0..127, or names that differ
\* in letter, accidental or octave) get different notation tokens
C30_PitchTokensInjective ==
    pc = "done" =>
        (argument[1] # argument[2] => returned[1] # returned[2])

\* the octave of a MIDI pitch or of a note name of one octave digit
OctaveOfPitch(note) ==
    IF note.t = "number" THEN (note.n[1] \div 12) - 1
    ELSE IF note.s[Len(note.s) - 1] = "-"
    THEN 0 - DecVal(<<note.s[Len(note.s)]>>)
    ELSE DecVal(<<note.s[Len(note.s)]>>)

\* two different pitches get different tokens unless one is in octave 3
\* and the other in octave 4
TokensDifferOutsideOctaves3And4 ==
    pc = "done" =>
        ((argument[1] # argument[2]
            /\ {OctaveOfPitch(argument[1]), OctaveOfPitch(argument[2])}
               # {3, 4})
           => returned[1] # returned[2])

---------------------------------------------------------------------------
(* The instruments and the events of the pattern blocks.                   *)

\* the names the returned script defines with SynthDef(\name, ...)
DefinedSynthDefs == {sc[k].name : k \in {i \in 1..Len(sc) :
                                           sc[i].kind = "SynthDef"}}

PatternBlocks == BlocksOfKind("patterns", "Pbind")

\* C29: the \instrument of every pattern block of a returned script is the
\* name of a SynthDef of the same script
C29_PatternInstrumentsDefined ==
    ScReturned =>
        \A k \in 1..Len(PatternBlocks) :
            PatternBlocks[k].body \in DefinedSynthDefs

\* the instrument is defined when the audio graph is missing or empty and
\* the sequence has no synthRef, and when the synthRef is the id of a node
\* of a recognized synthesizer or effect type
InstrumentDefinedForRecognizedNodes ==
    ScReturned =>
        \A k \in 1..Len(composition.sequences.a) :
            LET sequence == composition.sequences.a[k]
                graph == IF IsArray(composition.audioGraph)
                         THEN composition.audioGraph.a ELSE <<>>
            IN  (\/ sequence.synthRef = "" /\ graph = <<>>
                 \/ \E i \in 1..Len(graph) :
                        /\ graph[i].id = sequence.synthRef
                        /\ \/ IsSynthNode(graph[i].type)
                           \/ IsEffectNode(graph[i].type))
                    => PatternBlocks[k].body \in DefinedSynthDefs
\* the resolved start and end of a note, in seconds
StartOf(note, b) == ScTime(note.time, b)
EndOf(note, b) == RAdd(ScTime(note.time, b), ScTime(note.duration, b))

\* the notes in order of resolved start time, notes of equal start in the
\* order of the array: the positions in the array, in that order
TimeOrder(notes, b) ==
    CHOOSE f \in [1..Len(notes) -> 1..Len(notes)] :
        \A i, j \in 1..Len(notes) :
            i < j => \/ RLt(StartOf(notes[f[i]], b), StartOf(notes[f[j]], b))
                     \/ /\ StartOf(notes[f[i]], b) = StartOf(notes[f[j]], b)
                        /\ f[i] < f[j]

\* the positions of the entries of a freq list that are no rests, in order
NotePositions(freq) ==
    LET isNote(p) == ~freq[p].rest
    IN  SelectSeq([p \in 1..Len(freq) |-> p], isNote)

\* a pattern block holds the notes in time order, a rest of the length of
\* the gap before a note exactly where there is a gap, and nothing else
PatternFollowsNotes(block, notes, b) ==
    LET order == TimeOrder(notes, b)
        at    == NotePositions(block.freq)
        before(i) == IF i = 1 THEN 0 ELSE at[i - 1]
        lastEnd(i) == IF i = 1 THEN Num(0)
                      ELSE EndOf(notes[order[i - 1]], b)
    IN  /\ Len(block.freq) = Len(block.dur)
        /\ Len(block.dur) = Len(block.amp)
        /\ Len(at) = Len(notes)
        /\ Len(notes) > 0 => at[Len(at)] = Len(block.freq)
        /\ \A i \in 1..Len(notes) :
               LET note == notes[order[i]]
                   gap  == RLt(lastEnd(i), StartOf(note, b))
               IN  /\ block.freq[at[i]] = FreqEntry(note)
                   /\ block.dur[at[i]]
                          = SecondsToBeats(ScTime(note.duration, b), b)
                   /\ at[i] - before(i) = (IF gap THEN 2 ELSE 1)
                   /\ gap =>
                          /\ block.amp[at[i] - 1] = Num(0)
                          /\ block.dur[at[i] - 1]
                                 = SecondsToBeats(
                                       RSub(StartOf(note, b), lastEnd(i)), b)

\* C25: in every pattern block the notes appear in order of resolved start
\* time, a rest (amplitude 0, duration the gap in beats) stands before a
\* note exactly when the note starts later than the previous note ends (or
\* later than 0 for the first note), and the freq, dur and amp lists have
\* the same length
C25_PatternRestsFillGaps ==
    ScReturned =>
        \A k \in 1..Len(PatternBlocks) :
            PatternFollowsNotes(PatternBlocks[k],
                                composition.sequences.a[k].notes.a,
                                BpmOrDefault(composition))

\* C25 witness: a pattern of two notes given out of time order, the later
\* one starting after the earlier one ends, was written with one rest
C25_Witness ==
    /\ ScReturned
    /\ Len(composition.sequences.a[1].notes.a) = 2
    /\ LET notes == composition.sequences.a[1].notes.a
           b == BpmOrDefault(composition)
       IN  /\ RLt(StartOf(notes[2], b), StartOf(notes[1], b))
           /\ RLt(EndOf(notes[2], b), StartOf(notes[1], b))
           /\ StartOf(notes[2], b) = Num(0)
    /\ Len(PatternBlocks[1].freq) = 3
    /\ PatternBlocks[1].freq[2].rest

---------------------------------------------------------------------------
(* Reading the events of a track chunk back.                               *)

\* the variable-length quantity that starts at p[i]: <<value, next index>>
RECURSIVE ReadVariableLength(_, _, _)
ReadVariableLength(p, i, acc) ==
    IF i > Len(p) THEN <<acc, i>>
    ELSE IF p[i] >= 128
    THEN ReadVariableLength(p, i + 1, (acc * 128 + (p[i] % 128)) % Pow2(28))
    ELSE <<acc * 128 + p[i], i + 1>>

\* the events of a track payload from p[i] on, each with its absolute tick;
\* the walk ends where an event does not fit
RECURSIVE ReadEvents(_, _, _)
ReadEvents(p, i, tick) ==
    LET delta == ReadVariableLength(p, i, 0)
        j == delta[2]
        at == tick + delta[1]
    IN  IF j + 2 > Len(p) THEN <<>>
        ELSE IF p[j] = 255
        THEN <<[tick |-> at, status |-> 255, data |-> p[j + 1]]>>
             \o ReadEvents(p, j + 3 + p[j + 2], at)
        ELSE <<[tick |-> at, status |-> p[j], data |-> p[j + 1]]>>
             \o ReadEvents(p, j + 3, at)

\* the note-on (9) or note-off (8) events of track i of the file, in order
NoteEventsRead(i, kind) ==
    LET off == ChunkOffsets(midiFile, HeaderLength)[i]
        isKind(e) == e.status \div 16 = kind
    IN  SelectSeq(ReadEvents(Payload(midiFile, off), 1, 0), isKind)

\* the ticks at which a track note starts and ends
StartTick(note) == Round(RMul(note.time, Num(DefaultTicksPerQuarter)))
EndTick(note) ==
    StartTick(note)
    + Round(RMul(NumOr(note.duration, <<1, 2>>), Num(DefaultTicksPerQuarter)))

\* the pitch byte a track note is written with
WrittenPitch(note) ==
    IF NumFalsy(note.midi) THEN FallbackMidiNumber ELSE Floor(note.midi)

\* a sequence of integers in non-decreasing order
RECURSIVE SortedInts(_)
SortedInts(xs) ==
    IF xs = <<>> THEN <<>>
    ELSE LET rest == SortedInts(Tail(xs))
             k == Cardinality({i \in 1..Len(rest) : rest[i] < Head(xs)})
         IN  SubSeq(rest, 1, k) \o <<Head(xs)>>
             \o SubSeq(rest, k + 1, Len(rest))

\* the events of track i stand at the ticks of its notes, and the note-ons
\* of notes that start on one tick are written in the order of the array
TrackKeepsTicks(i) ==
    LET notes == midi.tracks[i].notes
        ons   == NoteEventsRead(i, 9)
        offs  == NoteEventsRead(i, 8)
    IN  /\ [k \in 1..Len(ons) |-> ons[k].tick]
               = SortedInts([k \in 1..Len(notes) |-> StartTick(notes[k])])
        /\ [k \in 1..Len(offs) |-> offs[k].tick]
               = SortedInts([k \in 1..Len(notes) |-> EndTick(notes[k])])
        /\ \A t \in {StartTick(notes[k]) : k \in 1..Len(notes)} :
               LET onAt(e) == e.tick = t
                   startsAt(n) == StartTick(n) = t
                   written == SelectSeq(ons, onAt)
                   given == SelectSeq(notes, startsAt)
               IN  [k \in 1..Len(written) |-> written[k].data]
                       = [k \in 1..Len(given) |-> WrittenPitch(given[k])]

\* C23: in every track chunk of the written file the events stand in tick
\* order with deltas that are the differences of their ticks: read back,
\* the note-ons are at the start ticks of the track's notes and the
\* note-offs at their end ticks, chords, overlapping notes and notes listed
\* out of time order included, and the note-ons of a chord are on one tick
\* in array order
C23_EventsInTickOrder ==
    pc = "exported" => \A i \in 1..Len(midi.tracks) : TrackKeepsTicks(i)

\* a track's notes follow one another: each starts no earlier than the
\* note listed before it ends
Sequential(notes) ==
    \A k \in 2..Len(notes) : StartTick(notes[k]) >= EndTick(notes[k - 1])

\* the ticks are kept for every track whose notes follow one another
SequentialNotesKeepTicks ==
    pc = "exported" =>
        \A i \in 1..Len(midi.tracks) :
            Sequential(midi.tracks[i].notes) => TrackKeepsTicks(i)
\* the tick of a time of s seconds at tempo b, ticksPerQuarter to the beat
TickAtTempo(s, b) ==
    Round(RMul(RDiv(RMul(s, b), Num(60)), Num(DefaultTicksPerQuarter)))

\* the notes of track i are written at the ticks their seconds have at the
\* tempo b
TrackKeepsSeconds(i, b) ==
    LET notes == midi.tracks[i].notes
        ons   == NoteEventsRead(i, 9)
        offs  == NoteEventsRead(i, 8)
    IN  /\ [k \in 1..Len(ons) |-> ons[k].tick]
               = SortedInts([k \in 1..Len(notes) |->
                                TickAtTempo(notes[k].time, b)])
        /\ [k \in 1..Len(offs) |-> offs[k].tick]
               = SortedInts([k \in 1..Len(notes) |->
                                TickAtTempo(notes[k].time, b)
                                + TickAtTempo(notes[k].duration, b)])

\* the file of a converted composition has been written
ConvertedAndExported == pc = "exported" /\ converter = "midi"

\* C27: a note that starts at S seconds and lasts D seconds in a
\* composition of tempo bpm is written at tick round(S * bpm/60 * 480) with
\* length round(D * bpm/60 * 480), for every bpm
C27_TicksKeepSeconds ==
    ConvertedAndExported =>
        \A i \in 1..Len(midi.tracks) :
            TrackKeepsSeconds(i, midi.tempos[1].bpm)

\* at 60 beats per minute the ticks of a track whose notes follow one
\* another are those of the notes' seconds
TicksKeepSecondsAtSixty ==
    (ConvertedAndExported /\ midi.tempos[1].bpm = Num(60)) =>
        \A i \in 1..Len(midi.tracks) :
            Sequential(midi.tracks[i].notes)
                => TrackKeepsSeconds(i, Num(60))

---------------------------------------------------------------------------
(* jmonTone.expandNotesWithLoop, with one action per turn of its for loop. *)

\* Math.ceil
Ceil(a) == IF IsFinite(a) THEN Num(0 - Floor(RNeg(a))) ELSE a

\* Math.max of two numbers
RMax(a, b) ==
    IF IsNaN(a) \/ IsNaN(b) THEN NaN ELSE IF RLt(a, b) THEN b ELSE a

\* typeof v === 'string' ? jmonTone._parseTimeString(v, 120) : v
LoopSeconds(v) ==
    IF v.t = "string" THEN ParseTimeString(v, Num(120))
    ELSE IF v.t = "number" THEN v.n
    ELSE NaN

\* Math.max(...sequence.notes.map(n => noteTime + noteDuration))
RECURSIVE LastNoteTime(_)
LastNoteTime(notes) ==
    IF notes = <<>> THEN RNeg(Infinity)
    ELSE RMax(RAdd(LoopSeconds(Head(notes).time),
                   LoopSeconds(Head(notes).duration)),
              LastNoteTime(Tail(notes)))

\* loopEndTime; it stays undefined (NaN in the division that follows) for a
\* loop setting that is neither a string nor true
LoopEndTime(sequence) ==
    IF sequence.loop.t = "string"
    THEN ParseTimeString(sequence.loop, Num(120))
    ELSE IF sequence.loop = JTrue THEN LastNoteTime(sequence.notes)
    ELSE NaN

\* sequence.loop && sequence.loop !== false
LoopRequested(sequence) == Truthy(sequence.loop) /\ sequence.loop # JFalse

\* an entry of expandedNotes: the note's fields and its isLooped property
OriginalEntry(note) == [fields |-> note, isLooped |-> FALSE]

\* { ...originalNote, time: noteTime + loopOffset, isLooped: true }
LoopedNote(originalNote, loopOffset) ==
    [fields |-> [originalNote EXCEPT
                     !.time = JNum(RAdd(LoopSeconds(originalNote.time),
                                        loopOffset))],
     isLooped |-> TRUE]

\* the pushes of sequence.notes.forEach for one loopIndex
RECURSIVE LoopedNotes(_, _, _)
LoopedNotes(notes, loopOffset, totalDuration) ==
    IF notes = <<>> THEN <<>>
    ELSE LET loopedNote == LoopedNote(Head(notes), loopOffset)
             rest == LoopedNotes(Tail(notes), loopOffset, totalDuration)
         IN  IF RLt(loopedNote.fields.time.n, totalDuration)
             THEN <<loopedNote>> \o rest
             ELSE rest

---------------------------------------------------------------------------
(* Specification of the loop expansion: one call of                        *)
(* jmonTone.expandNotesWithLoop(sequence, totalDuration).                  *)

\* the largest totalDuration, in seconds
MaxTotalDuration == 3

\* turns of the for loop after which a call that is still looping is left
\* where it is
MaxLoopIndex == 10

TotalDurations == {<<k, 2>> : k \in {0, 1}} \cup
                  {Num(k) : k \in 1..MaxTotalDuration}

LoopNote(t, duration) ==
    [EmptyNote EXCEPT !.time = t, !.note = JNum(Num(60)),
                      !.duration = duration]

LoopNoteLists ==
    LET first  == LoopNote(JNum(Num(0)), JStr(<<"4", "n">>))
        second == LoopNote(JNum(<<1, 2>>), JNum(<<1, 2>>))
        third  == LoopNote(JStr(<<"0", ":", "1", ":", "0">>), JNum(Num(1)))
        late   == LoopNote(JNum(Num(2)), JNum(<<1, 2>>))
    IN  {<<>>, <<first>>, <<first, second>>, <<second, first>>, <<third>>,
         <<first, late>>}

LoopSettings ==
    {JUndefined, JFalse, JTrue, JNum(Num(2)),
     JStr(<<"0", ":", "0", ":", "0">>), JStr(<<"0">>),
     JStr(<<"0", ":", "1", ":", "0">>), JStr(<<"2", "n">>),
     JStr(<<"1", ":", "0", ":", "0">>)}

\* the locals before the function is entered: none is assigned
NoLocals ==
    [expandedNotes |-> <<>>, originalDuration |-> NaN, numberOfLoops |-> NaN,
     loopIndex |-> 0]

InitLoop ==
    /\ OutputIdle
    /\ pc = "call"
    /\ argument \in [sequence : [notes : LoopNoteLists, loop : LoopSettings],
                     totalDuration : TotalDurations]
    /\ returned = <<>>
    /\ locals = NoLocals
    /\ TimeIdle
    /\ TempoIdle
    /\ ValidateIdle
    /\ NormalizeIdle
    /\ ConvertIdle

LoopUnchanged ==
    UNCHANGED <<argument, timeVars, tempoVars, validateVars, normalizeVars,
                convertVars, outputVars>>

\* entry: the copy of the notes and, when a loop is requested, the locals of
\* the for loop
EnterExpandNotesWithLoop ==
    /\ pc = "call"
    /\ LET sequence == argument.sequence
           originalDuration == LoopEndTime(sequence)
       IN  /\ locals' =
                  [expandedNotes |->
                       [k \in 1..Len(sequence.notes) |->
                            OriginalEntry(sequence.notes[k])],
                   originalDuration |-> originalDuration,
                   numberOfLoops |->
                       Ceil(RDiv(argument.totalDuration, originalDuration)),
                   loopIndex |-> 1]
           /\ pc' = IF LoopRequested(sequence) THEN "loop" ELSE "return"
    /\ UNCHANGED returned
    /\ LoopUnchanged

\* loopIndex < numberOfLoops
LoopContinues == RLt(Num(locals.loopIndex), locals.numberOfLoops)

\* one turn of the for loop
ExpandOneLoop ==
    /\ pc = "loop"
    /\ LoopContinues
    /\ locals.loopIndex < MaxLoopIndex
    /\ LET loopOffset == RMul(Num(locals.loopIndex), locals.originalDuration)
       IN  locals' =
               [locals EXCEPT
                    !.expandedNotes =
                        @ \o LoopedNotes(argument.sequence.notes, loopOffset,
                                         argument.totalDuration),
                    !.loopIndex = @ + 1]
    /\ UNCHANGED <<pc, returned>>
    /\ LoopUnchanged

\* the loop test fails
LeaveLoop ==
    /\ pc = "loop"
    /\ ~LoopContinues
    /\ pc' = "return"
    /\ UNCHANGED <<returned, locals>>
    /\ LoopUnchanged

\* return expandedNotes
ReturnExpandedNotes ==
    /\ pc = "return"
    /\ returned' = locals.expandedNotes
    /\ pc' = "done"
    /\ UNCHANGED locals
    /\ LoopUnchanged

NextLoop ==
    \/ EnterExpandNotesWithLoop
    \/ ExpandOneLoop
    \/ LeaveLoop
    \/ ReturnExpandedNotes

SpecLoop == InitLoop /\ [][NextLoop]_vars

\* ExpandOneLoop can take a step
CanExpand ==
    pc = "loop" /\ LoopContinues /\ locals.loopIndex < MaxLoopIndex

\* a call that can take a step takes it: the function runs on one thread
\* from entry to return.  This is weak fairness of each of the four
\* actions; for the two that compute on the notes it is written with the
\* action's enabling condition spelled out (pc = "call", CanExpand).
SpecLoopFair ==
    /\ SpecLoop
    /\ WF_vars(LeaveLoop)
    /\ WF_vars(ReturnExpandedNotes)
    /\ ([]<>(pc # "call") \/ []<><<EnterExpandNotesWithLoop>>_vars)
    /\ ([]<>(~CanExpand) \/ []<><<ExpandOneLoop>>_vars)

\* the returned list starts with the sequence's notes, and every note after
\* them is a looped note with a time below totalDuration
ExpansionKeepsNotes ==
    LET notes == argument.sequence.notes
    IN  /\ Len(returned) >= Len(notes)
        /\ \A k \in 1..Len(notes) : returned[k] = OriginalEntry(notes[k])
        /\ \A k \in (Len(notes) + 1)..Len(returned) :
               /\ returned[k].isLooped
               /\ RLt(returned[k].fields.time.n, argument.totalDuration)

\* the for loop is entered only with a finite number of turns ahead of it
LoopCountIsFinite ==
    pc = "loop" => locals.numberOfLoops # Infinity

\* C26: every call of expandNotesWithLoop returns, whatever the loop
\* setting (absent, false, true, a time string, also one of 0 seconds), and
\* the list it returns starts with the original notes and has only looped
\* notes with a time below totalDuration after them.  The loop counts
\* loopIndex up by one from 1 while loopIndex < numberOfLoops, so the call
\* returns exactly when numberOfLoops is not Infinity
C26_ExpansionTerminates ==
    /\ LoopCountIsFinite
    /\ pc = "done" => ExpansionKeepsNotes

\* every call comes to its return with such a list
ExpansionReturns == <>(pc = "done" /\ ExpansionKeepsNotes)

\* a call whose loop length is not 0 seconds returns such a list
NonZeroLoopTerminates ==
    (pc # "call" /\ locals.originalDuration # Num(0))
        ~> (pc = "done" /\ ExpansionKeepsNotes)

---------------------------------------------------------------------------
(* Specifications of repeated calls: normalize, validate, convertToAbc or  *)
(* convertToSuperCollider is called on an input, and when that call has    *)
(* ended the same function is called on the same input again.  SpecRepeat  *)
(* has the calls of normalize, validate and convertToSuperCollider,        *)
(* SpecRepeatAbc those of convertToAbc.                                    *)

RepeatedFunctions == {"normalize", "validate", "sc"}

RepeatInputs(function) ==
    CASE function = "normalize" ->
             CanonicalInputs \cup NonCanonicalOver({<<>>})
      [] function = "validate" ->
             CanonicalInputs
             \cup {[GoodComposition EXCEPT !.sequences = JArr(<<sq>>)] :
                       sq \in SequenceVariants}
      [] function = "abc" ->
             {c \in AbcInputs : c.timeSignature = "3/4" \/ c.bpm = JNum(Num(90))}
      [] function = "sc" ->
             {[GoodComposition EXCEPT !.audioGraph = ag, !.metadata = md] :
                  ag \in ScGraphs, md \in AbcMetadata}

\* where a call of the function starts
EntryOf(function) ==
    IF function \in {"abc", "sc"} THEN "start" ELSE "call"

InitRepeatOf(functions) ==
    /\ OutputIdle
    /\ CallIdle
    /\ converter \in functions
    /\ pc = EntryOf(converter)
    /\ rawInput \in RepeatInputs(converter)
    /\ composition = rawInput
    /\ validation = NoValidation
    /\ normalized = EmptyObject
    /\ normalizedTwice = EmptyObject
    /\ ConvertFresh
    /\ TimeIdle
    /\ TempoIdle

InitRepeat == InitRepeatOf(RepeatedFunctions)

InitRepeatAbc == InitRepeatOf({"abc"})

RepeatNormalize == converter = "normalize" /\ CallNormalize

RepeatValidate == converter = "validate" /\ CallValidate

\* the call has returned or thrown
CallEnded == pc \in {"normalized", "done", "returned", "threw"}

\* what the caller gets from the call that has ended
Outcome ==
    [ended |-> pc, normalized |-> normalized, validation |-> validation,
     abc |-> abc, sc |-> sc]

\* the caller keeps the first outcome and calls the function again
CallAgain ==
    /\ CallEnded
    /\ run = 1
    /\ returned' = Outcome
    /\ run' = 2
    /\ pc' = EntryOf(converter)
    /\ normalized' = EmptyObject
    /\ validation' = NoValidation
    /\ abc' = <<>>
    /\ sc' = <<>>
    /\ stages' = <<>>
    /\ UNCHANGED <<composition, rawInput, normalizedTwice, converter,
                   normalizedComposition, midi, midiFile, firstRun, timeVars,
                   tempoVars, argument, locals>>

NextRepeat ==
    \/ RepeatNormalize
    \/ RepeatValidate
    \/ NextSc
    \/ CallAgain

SpecRepeat == InitRepeat /\ [][NextRepeat]_vars

NextRepeatAbc == NextAbc \/ CallAgain

SpecRepeatAbc == InitRepeatAbc /\ [][NextRepeatAbc]_vars

\* both calls have ended
CalledTwice == run = 2 /\ CallEnded

\* C22: the second call of a function (normalize, validate,
\* convertToSuperCollider; convertToAbc under SpecRepeatAbc) on an input
\* ends as the first did and returns an equal value (the same script, byte
\* for byte), whenever it is made
C22_RepeatedCallSameOutcome ==
    CalledTwice => Outcome = returned

\* a script without the "Generated on" line of its header
WithoutDate(script) ==
    [k \in 1..Len(script) |->
         IF script[k].section = "header" THEN [script[k] EXCEPT !.body = ""]
         ELSE script[k]]

\* the second call ends as the first did and returns an equal value but
\* for the "Generated on" line of a script
RepeatedCallSameButForDate ==
    CalledTwice =>
        /\ WithoutDate(sc) = WithoutDate(returned.sc)
        /\ [Outcome EXCEPT !.sc = <<>>] = [returned EXCEPT !.sc = <<>>]

---------------------------------------------------------------------------
(* The composition passed to a call.                                       *)

\* a sequence of the composition has notes that are not in time order
NotesOutOfOrder ==
    \E i \in 1..Len(rawInput.sequences.a) :
        LET notes == rawInput.sequences.a[i].notes.a
        IN  SortByScTime(notes, BpmOrDefault(rawInput)) # notes

NoStepChangesComposition == [][composition' = composition]_vars


====
